---- MODULE Spec2Model ----
(***************************************************************************)
(* Model of the suspicion scorer of senate_insight:                        *)
(* InsiderTradingDetector.analyze_member_activity and the four sub-score   *)
(* functions, the alert assembly and the alert model.                      *)
(*                                                                         *)
(* Representation.                                                         *)
(*  - A Python str on which the code does character work (lower, split,   *)
(*    in) is a sequence of one-character strings.                          *)
(*  - A date is a day number; a datetime is an hour number, date() of it   *)
(*    is the day it falls in.                                              *)
(*  - A score is an integer number of thousandths (0.8 is 800).  The       *)
(*    sub-scores the code can produce are multiples of 0.1 and the         *)
(*    weights multiples of 0.05, so the weighted sum is an exact number    *)
(*    of thousandths; the float sum of the code differs from it by less    *)
(*    than 1e-15 and compares with the threshold 0.3 the same way (the     *)
(*    only tuple that meets 0.3 exactly is timing 1.0 alone, where the     *)
(*    float sum is the float 0.3 itself).                                  *)
(*  - close_price is a Decimal: differences and quotients of the model's   *)
(*    closes are exact.  The thresholds 0.20, 0.10 and 0.05 of the price   *)
(*    score are float literals, and each of these floats is slightly       *)
(*    greater than the decimal it is written as.                           *)
(*  - Optional[X] is a sequence of length 0 (None) or 1.                   *)
(*  - A function that can raise returns a record with the exception name   *)
(*    in exc ("none" when it returns normally).                            *)
(***************************************************************************)
EXTENDS Integers, Sequences, FiniteSets, TLC

\* ------------------------------------------------------------------------
\* Bounds of the explored inputs
\* ------------------------------------------------------------------------
MaxTx == 2
MaxActions == 2
MaxClock == 1
MaxTimingActions == 2
MaxCommitteeList == 2
MaxBars == 3
MaxCalls == 2
MaxWorkers == 2
MaxMembers == 2

\* ------------------------------------------------------------------------
\* str operations
\* ------------------------------------------------------------------------
ToLower ==
    ("A" :> "a") @@ ("B" :> "b") @@ ("C" :> "c") @@ ("D" :> "d") @@
    ("E" :> "e") @@ ("F" :> "f") @@ ("G" :> "g") @@ ("H" :> "h") @@
    ("I" :> "i") @@ ("J" :> "j") @@ ("K" :> "k") @@ ("L" :> "l") @@
    ("M" :> "m") @@ ("N" :> "n") @@ ("O" :> "o") @@ ("P" :> "p") @@
    ("Q" :> "q") @@ ("R" :> "r") @@ ("S" :> "s") @@ ("T" :> "t") @@
    ("U" :> "u") @@ ("V" :> "v") @@ ("W" :> "w") @@ ("X" :> "x") @@
    ("Y" :> "y") @@ ("Z" :> "z")

\* str.lower()
lower(s) ==
    [k \in 1..Len(s) |-> IF s[k] \in DOMAIN ToLower THEN ToLower[s[k]] ELSE s[k]]

\* sub in s
Contains(sub, s) ==
    \E k \in 0..(Len(s) - Len(sub)) : \A j \in 1..Len(sub) : s[k + j] = sub[j]

\* the words of s.split(): the maximal runs of non-blank characters
split(s) ==
    LET starts == { a \in 1..Len(s) : s[a] # " " /\ (a = 1 \/ s[a - 1] = " ") }
        EndOf(a) == CHOOSE b \in a..Len(s) :
                       /\ b = Len(s) \/ s[b + 1] = " "
                       /\ \A k \in a..b : s[k] # " "
    IN  { SubSeq(s, a, EndOf(a)) : a \in starts }

\* sep.join(parts)
RECURSIVE join(_, _)
join(sep, parts) ==
    IF parts = <<>> THEN <<>>
    ELSE IF Len(parts) = 1 THEN parts[1]
    ELSE parts[1] \o sep \o join(sep, Tail(parts))

\* ------------------------------------------------------------------------
\* dates
\* ------------------------------------------------------------------------
\* datetime.date(): the day an hour number falls in
date(dt) == dt \div 24

\* datetime(day, hour)
datetime(day, hour) == day * 24 + hour

\* min taken for max
MaxInsteadOfMin(a, b) == IF a <= b THEN b ELSE a

\* min ignoring its second argument: no cap
MinUncapped(a, b) == a

Min(a, b) == IF a <= b THEN a ELSE b

RECURSIVE SumSeq(_)
SumSeq(s) == IF s = <<>> THEN 0 ELSE Head(s) + SumSeq(Tail(s))

\* MaxOf taking the last element for the greatest
MaxOfLast(s) == s[Len(s)]

\* max(...) and min(...) over a non-empty sequence of numbers
MaxOf(s) == CHOOSE x \in { s[k] : k \in 1..Len(s) } : \A k \in 1..Len(s) : s[k] <= x
MinOf(s) == CHOOSE x \in { s[k] : k \in 1..Len(s) } : \A k \in 1..Len(s) : x <= s[k]

\* ------------------------------------------------------------------------
\* InsiderTradingDetector
\* ------------------------------------------------------------------------
\* __init__: the configuration the detector holds
DetectorInit ==
    [ timing_window_days |-> 30,
      significant_price_change |-> 50,
      min_confidence_threshold |-> 300 ]

\* _is_action_relevant_to_stock matching every word of the company name,
\* the short ones too
_is_action_relevant_any_word(action, ticker, company_name) ==
    LET action_text  == lower(action.bill_title \o <<" ">> \o
                              join(<<" ">>, action.industries_affected))
    IN  \/ Contains(lower(ticker), action_text)
        \/ \E word \in split(lower(company_name)) : Contains(word, action_text)

_is_action_relevant_to_stock(action, ticker, company_name) ==
    LET action_text  == lower(action.bill_title \o <<" ">> \o
                              join(<<" ">>, action.industries_affected))
        company_lower == lower(company_name)
        ticker_lower == lower(ticker)
    IN  \/ Contains(ticker_lower, action_text)
        \/ \E word \in split(company_lower) :
              Len(word) > 3 /\ Contains(word, action_text)

\* TimingContribution with the first band ending a day early
TimingContributionShortBand(days_difference) ==
    IF 0 <= days_difference /\ days_difference < 14 THEN 800
    ELSE IF -7 <= days_difference /\ days_difference < 0 THEN 400
    ELSE IF 15 <= days_difference /\ days_difference <= 30 THEN 500
    ELSE 0

\* TimingContribution with a full score for the nearest band
TimingContributionFullBand(days_difference) ==
    IF 0 <= days_difference /\ days_difference <= 14 THEN 1000
    ELSE IF -7 <= days_difference /\ days_difference < 0 THEN 400
    ELSE IF 15 <= days_difference /\ days_difference <= 30 THEN 500
    ELSE 0

\* lines 138-145: the contribution of one relevant action, by its signed
\* day difference
TimingContribution(days_difference) ==
    IF 0 <= days_difference /\ days_difference <= 14 THEN 800
    ELSE IF -7 <= days_difference /\ days_difference < 0 THEN 400
    ELSE IF 15 <= days_difference /\ days_difference <= 30 THEN 500
    ELSE 0

\* _calculate_timing_score counting the actions of the transaction's
\* member only
_calculate_timing_score_own_member(self, transaction, legislative_actions, stock_prices) ==
    LET Counts(action) ==
            /\ action.member_id = transaction.member_id
            /\ transaction.transaction_date - self.timing_window_days
                  <= date(action.action_date)
            /\ date(action.action_date)
                  <= transaction.transaction_date + self.timing_window_days
            /\ _is_action_relevant_to_stock(action, transaction.ticker,
                                            transaction.company_name)
        relevant_actions == SelectSeq(legislative_actions, Counts)
    IN  Min(SumSeq([k \in 1..Len(relevant_actions) |->
                TimingContribution(date(relevant_actions[k].action_date)
                                   - transaction.transaction_date)]), 1000)

_calculate_timing_score(self, transaction, legislative_actions, stock_prices) ==
    LET window_start == transaction.transaction_date - self.timing_window_days
        window_end   == transaction.transaction_date + self.timing_window_days
        InWindowAndRelevant(action) ==
            /\ window_start <= date(action.action_date)
            /\ date(action.action_date) <= window_end
            /\ _is_action_relevant_to_stock(action, transaction.ticker,
                                            transaction.company_name)
        relevant_actions == SelectSeq(legislative_actions, InWindowAndRelevant)
        score == SumSeq([k \in 1..Len(relevant_actions) |->
                    TimingContribution(date(relevant_actions[k].action_date)
                                       - transaction.transaction_date)])
    IN  Min(score, 1000)

\* committee_industry_map, in the order of the dict
committee_industry_map ==
    << [industry |-> <<"b", "a", "n", "k", "i", "n", "g">>,
        keywords |-> <<<<"f", "i", "n", "a", "n", "c", "i", "a", "l">>, <<"b", "a", "n", "k">>, <<"i", "n", "s", "u", "r", "a", "n", "c", "e">>, <<"c", "r", "e", "d", "i", "t">>>>],
       [industry |-> <<"e", "n", "e", "r", "g", "y">>,
        keywords |-> <<<<"o", "i", "l">>, <<"g", "a", "s">>, <<"e", "n", "e", "r", "g", "y">>, <<"u", "t", "i", "l", "i", "t", "y">>, <<"s", "o", "l", "a", "r">>, <<"w", "i", "n", "d">>>>],
       [industry |-> <<"t", "e", "c", "h", "n", "o", "l", "o", "g", "y">>,
        keywords |-> <<<<"t", "e", "c", "h">>, <<"s", "o", "f", "t", "w", "a", "r", "e">>, <<"i", "n", "t", "e", "r", "n", "e", "t">>, <<"t", "e", "l", "e", "c", "o", "m", "m", "u", "n", "i", "c", "a", "t", "i", "o", "n", "s">>>>],
       [industry |-> <<"h", "e", "a", "l", "t", "h", "c", "a", "r", "e">>,
        keywords |-> <<<<"p", "h", "a", "r", "m", "a">>, <<"b", "i", "o", "t", "e", "c", "h">>, <<"m", "e", "d", "i", "c", "a", "l">>, <<"h", "o", "s", "p", "i", "t", "a", "l">>>>],
       [industry |-> <<"d", "e", "f", "e", "n", "s", "e">>,
        keywords |-> <<<<"d", "e", "f", "e", "n", "s", "e">>, <<"a", "e", "r", "o", "s", "p", "a", "c", "e">>, <<"m", "i", "l", "i", "t", "a", "r", "y">>>>],
       [industry |-> <<"a", "g", "r", "i", "c", "u", "l", "t", "u", "r", "e">>,
        keywords |-> <<<<"a", "g", "r", "i", "c", "u", "l", "t", "u", "r", "e">>, <<"f", "o", "o", "d">>, <<"f", "a", "r", "m", "i", "n", "g">>>>],
       [industry |-> <<"t", "r", "a", "n", "s", "p", "o", "r", "t", "a", "t", "i", "o", "n">>,
        keywords |-> <<<<"a", "i", "r", "l", "i", "n", "e">>, <<"a", "u", "t", "o", "m", "o", "t", "i", "v", "e">>, <<"r", "a", "i", "l", "r", "o", "a", "d">>, <<"s", "h", "i", "p", "p", "i", "n", "g">>>>] >>

\* _calculate_committee_correlation growing with the matches: 0.7 for the
\* first pair of a matched domain and a committee that names it, 0.1 for
\* each further pair
_calculate_committee_correlation_by_matches(transaction, committee_assignments) ==
    LET company_lower == lower(transaction.company_name)
        HasKeyword(entry) ==
            \E k \in 1..Len(entry.keywords) : Contains(entry.keywords[k], company_lower)
        stock_industries == SelectSeq(committee_industry_map, HasKeyword)
        pairs == { <<n, k>> \in (1..Len(stock_industries))
                                \X (1..Len(committee_assignments)) :
                     Contains(stock_industries[n].industry,
                              lower(committee_assignments[k].committee_name)) }
    IN  IF pairs = {} THEN 0 ELSE 600 + 100 * Cardinality(pairs)

_calculate_committee_correlation(transaction, committee_assignments) ==
    LET company_lower == lower(transaction.company_name)
        HasKeyword(entry) ==
            \E k \in 1..Len(entry.keywords) : Contains(entry.keywords[k], company_lower)
        stock_industries == SelectSeq(committee_industry_map, HasKeyword)
        member_committees ==
            [k \in 1..Len(committee_assignments) |->
                lower(committee_assignments[k].committee_name)]
    IN  IF stock_industries = <<>> THEN 0
        ELSE IF \E n \in 1..Len(stock_industries) :
                   \E k \in 1..Len(member_committees) :
                      Contains(stock_industries[n].industry, member_committees[k])
             THEN 700
             ELSE 0

\* _get_price_on_date falling back on the latest earlier bar
_get_price_on_date_or_before(stock_prices, target_date) ==
    LET hits == { k \in 1..Len(stock_prices) : stock_prices[k].price_date = target_date }
        before == { k \in 1..Len(stock_prices) : stock_prices[k].price_date < target_date }
    IN  IF hits # {}
        THEN << stock_prices[CHOOSE k \in hits : \A h \in hits : k <= h] >>
        ELSE IF before = {} THEN <<>>
        ELSE << stock_prices[CHOOSE k \in before : \A h \in before :
                    stock_prices[h].price_date <= stock_prices[k].price_date] >>

\* the first bar of the list dated target_date, or None
_get_price_on_date(stock_prices, target_date) ==
    LET hits == { k \in 1..Len(stock_prices) : stock_prices[k].price_date = target_date }
    IN  IF hits = {} THEN <<>>
        ELSE << stock_prices[CHOOSE k \in hits : \A h \in hits : k <= h] >>

\* Decimal(num) / Decimal(den), den # 0, compared with a float literal that
\* is slightly greater than the decimal tnum/tden it is written as: the
\* quotient reaches the float only when it is greater than tnum/tden
QuotientGeFloat(num, den, tnum, tden) ==
    IF den > 0 THEN num * tden > tnum * den
               ELSE num * tden < tnum * den

\* a mapping that scores the magnitude of the change, whatever its sign
PriceChangeScoreMagnitude(num, den) ==
    LET magnitude == IF num < 0 THEN -num ELSE num
    IN  IF QuotientGeFloat(magnitude, den, 20, 100) THEN 1000
        ELSE IF QuotientGeFloat(magnitude, den, 10, 100) THEN 700
        ELSE IF QuotientGeFloat(magnitude, den, 5, 100) THEN 400
        ELSE 0

\* the mapping of the favorable change num/den to a score
PriceChangeScore(num, den) ==
    IF QuotientGeFloat(num, den, 20, 100) THEN 1000
    ELSE IF QuotientGeFloat(num, den, 10, 100) THEN 700
    ELSE IF QuotientGeFloat(num, den, 5, 100) THEN 400
    ELSE 0

\* Decimal division num / den: what it raises
DecimalDivisionExc(num, den) ==
    IF den # 0 THEN "none"
    ELSE IF num = 0 THEN "InvalidOperation" ELSE "DivisionByZero"

_calculate_price_movement_score(transaction, stock_prices) ==
    LET transaction_price ==
            _get_price_on_date(stock_prices, transaction.transaction_date)
        IsFuture(price) ==
            /\ price.price_date > transaction.transaction_date
            /\ price.price_date <= transaction.transaction_date + 30
        future_prices == SelectSeq(stock_prices, IsFuture)
        closes == [k \in 1..Len(future_prices) |-> future_prices[k].close_price]
        current == transaction_price[1].close_price
        favorable ==
            IF lower(transaction.transaction_type) \in {<<"b", "u", "y">>, <<"p", "u", "r", "c", "h", "a", "s", "e">>}
            THEN MaxOf(closes) - current
            ELSE current - MinOf(closes)
    IN  IF transaction_price = <<>> THEN [exc |-> "none", value |-> 0]
        ELSE IF future_prices = <<>> THEN [exc |-> "none", value |-> 0]
        ELSE IF DecimalDivisionExc(favorable, current) # "none"
             THEN [exc |-> DecimalDivisionExc(favorable, current), value |-> 0]
             ELSE [exc |-> "none", value |-> PriceChangeScore(favorable, current)]

\* VolumeZScoreGe dividing by the deviation without the floor of 1
VolumeZScoreGeUnfloored(k, baseline_volumes, day_volume) ==
    LET n == Len(baseline_volumes)
        S == SumSeq(baseline_volumes)
        Q == SumSeq([j \in 1..n |-> baseline_volumes[j] * baseline_volumes[j]])
        D == n * day_volume - S
    IN  IF n > 1 THEN D >= 0 /\ D * D * (n - 1) >= k * k * n * (n * Q - S * S)
                 ELSE 5 * (day_volume - S) >= k * S

\* volume_z_score >= k, for the baseline volumes and the volume of the day.
\* With n volumes of sum S and sum of squares Q, mean = S/n and the sample
\* variance is (n*Q - S*S) / (n*(n-1)); a single volume has deviation
\* 0.2 * mean.  The divisor is max(deviation, 1).
VolumeZScoreGe(k, baseline_volumes, day_volume) ==
    LET n == Len(baseline_volumes)
        S == SumSeq(baseline_volumes)
        Q == SumSeq([j \in 1..n |-> baseline_volumes[j] * baseline_volumes[j]])
        D == n * day_volume - S
    IN  IF n > 1
        THEN IF n * Q - S * S >= n * (n - 1)
             THEN D >= 0 /\ D * D * (n - 1) >= k * k * n * (n * Q - S * S)
             ELSE D >= k * n
        ELSE IF S >= 5
             THEN 5 * (day_volume - S) >= k * S
             ELSE day_volume - S >= k

\* _calculate_volume_anomaly_score with a baseline that runs up to the eve
\* of the transaction
_calculate_volume_anomaly_score_through_eve(transaction, stock_prices) ==
    LET IsBaseline(price) ==
            /\ price.price_date < transaction.transaction_date
            /\ price.price_date >= transaction.transaction_date - 37
        baseline_prices == SelectSeq(stock_prices, IsBaseline)
        transaction_day_price ==
            _get_price_on_date(stock_prices, transaction.transaction_date)
        baseline_volumes ==
            [k \in 1..Len(baseline_prices) |-> baseline_prices[k].volume]
        day_volume == transaction_day_price[1].volume
    IN  IF baseline_prices = <<>> \/ transaction_day_price = <<>> THEN 0
        ELSE IF VolumeZScoreGe(3, baseline_volumes, day_volume) THEN 800
        ELSE IF VolumeZScoreGe(2, baseline_volumes, day_volume) THEN 500
        ELSE IF VolumeZScoreGe(1, baseline_volumes, day_volume) THEN 200
        ELSE 0

_calculate_volume_anomaly_score(transaction, stock_prices) ==
    LET IsBaseline(price) ==
            /\ price.price_date < transaction.transaction_date - 7
            /\ price.price_date >= transaction.transaction_date - 37
        baseline_prices == SelectSeq(stock_prices, IsBaseline)
        transaction_day_price ==
            _get_price_on_date(stock_prices, transaction.transaction_date)
        baseline_volumes ==
            [k \in 1..Len(baseline_prices) |-> baseline_prices[k].volume]
        day_volume == transaction_day_price[1].volume
    IN  IF baseline_prices = <<>> \/ transaction_day_price = <<>> THEN 0
        ELSE IF VolumeZScoreGe(3, baseline_volumes, day_volume) THEN 800
        ELSE IF VolumeZScoreGe(2, baseline_volumes, day_volume) THEN 500
        ELSE IF VolumeZScoreGe(1, baseline_volumes, day_volume) THEN 200
        ELSE 0

\* AnalysisMetrics()
AnalysisMetrics ==
    [ timing_score |-> 0, committee_correlation_score |-> 0,
      price_movement_score |-> 0, volume_anomaly_score |-> 0,
      overall_suspicion_score |-> 0 ]

\* WeightedSum with the weights of timing and price movement exchanged
WeightedSumSwapped(timing, committee, price, volume) ==
    (timing * 350 + committee * 250 + price * 300 + volume * 100) \div 1000

\* WeightedSum with the committee correlation weighted 0.40
WeightedSumHeavyCommittee(timing, committee, price, volume) ==
    (timing * 300 + committee * 400 + price * 350 + volume * 100) \div 1000

\* lines 107-112: the weighted sum of the four sub-scores (weights in
\* thousandths)
WeightedSum(timing, committee, price, volume) ==
    (timing * 300 + committee * 250 + price * 350 + volume * 100) \div 1000

_analyze_transaction(self, transaction, member, legislative_actions, committee_assignments, stock_prices) ==
    LET timing    == _calculate_timing_score(self, transaction,
                                             legislative_actions, stock_prices)
        committee == _calculate_committee_correlation(transaction,
                                                      committee_assignments)
        price     == _calculate_price_movement_score(transaction, stock_prices)
        volume    == _calculate_volume_anomaly_score(transaction, stock_prices)
    IN  IF price.exc # "none"
        THEN [exc |-> price.exc, metrics |-> AnalysisMetrics]
        ELSE [exc |-> "none",
              metrics |->
                [ timing_score |-> timing,
                  committee_correlation_score |-> committee,
                  price_movement_score |-> price.value,
                  volume_anomaly_score |-> volume,
                  overall_suspicion_score |->
                      WeightedSum(timing, committee, price.value, volume) ]]

\* the sub-score tuples whose float sum, halfway between two hundredths as a
\* decimal, is a float that "{:.2f}" rounds up; every other halfway sum is a
\* float that it rounds down
HalfwayRoundedUp ==
    { <<0, 700, 0, 200>>, <<0, 700, 0, 800>>, <<400, 0, 700, 200>>,
      <<400, 0, 700, 800>>, <<400, 700, 0, 200>>, <<400, 700, 0, 800>>,
      <<400, 700, 1000, 0>>, <<400, 700, 1000, 200>>, <<400, 700, 1000, 500>>,
      <<400, 700, 1000, 800>>, <<500, 700, 400, 500>>, <<800, 0, 700, 200>>,
      <<800, 0, 700, 500>>, <<800, 700, 400, 800>>, <<900, 0, 700, 0>>,
      <<900, 0, 700, 200>>, <<900, 0, 700, 500>>, <<900, 700, 0, 0>>,
      <<900, 700, 0, 200>>, <<900, 700, 0, 800>>, <<900, 700, 400, 500>>,
      <<900, 700, 400, 800>>, <<900, 700, 1000, 800>>, <<1000, 700, 0, 500>>,
      <<1000, 700, 400, 200>>, <<1000, 700, 400, 500>>, <<1000, 700, 400, 800>>,
      <<1000, 700, 1000, 500>>, <<1000, 700, 1000, 800>> }

\* f"{metrics.overall_suspicion_score:.2f}", in hundredths
Format2f(metrics) ==
    LET o == metrics.overall_suspicion_score
    IN  IF o % 10 = 5
        THEN IF <<metrics.timing_score, metrics.committee_correlation_score,
                  metrics.price_movement_score, metrics.volume_anomaly_score>>
                \in HalfwayRoundedUp
             THEN o \div 10 + 1 ELSE o \div 10
        ELSE (o + 5) \div 10

\* the constructor with le=1.0 alone: no lower bound on confidence_score
InsiderTradingAlertNoLowerBound(fields, created_at) ==
    IF fields.confidence_score > 1000
    THEN [exc |-> "ValidationError", alert |-> <<>>]
    ELSE [exc |-> "none",
          alert |-> << [ alert_id |-> fields.alert_id,
                         member_id |-> fields.member_id,
                         transaction_id |-> fields.transaction_id,
                         alert_type |-> fields.alert_type,
                         confidence_score |-> fields.confidence_score,
                         description |-> fields.description,
                         legislative_actions |-> <<>>,
                         price_movement_days |-> fields.price_movement_days,
                         price_change_percent |-> fields.price_change_percent,
                         created_at |-> created_at ] >>]

\* the constructor of the pydantic model: confidence_score has ge=0.0, le=1.0
InsiderTradingAlert(fields, created_at) ==
    IF fields.confidence_score < 0 \/ fields.confidence_score > 1000
    THEN [exc |-> "ValidationError", alert |-> <<>>]
    ELSE [exc |-> "none",
          alert |-> << [ alert_id |-> fields.alert_id,
                         member_id |-> fields.member_id,
                         transaction_id |-> fields.transaction_id,
                         alert_type |-> fields.alert_type,
                         confidence_score |-> fields.confidence_score,
                         description |-> fields.description,
                         legislative_actions |-> <<>>,
                         price_movement_days |-> fields.price_movement_days,
                         price_change_percent |-> fields.price_change_percent,
                         created_at |-> created_at ] >>]

\* _create_alert building the alert without the model's validation, its
\* confidence the plain sum of the sub-scores
_create_alert_unchecked_sum(transaction, member, metrics, clock) ==
    [exc |-> "none",
     alert |-> << [ alert_id |-> <<"alert", transaction.transaction_id, clock>>,
                    member_id |-> member.member_id,
                    transaction_id |-> transaction.transaction_id,
                    alert_type |-> IF metrics.committee_correlation_score > 500
                                   THEN "committee_correlation"
                                   ELSE "timing_correlation",
                    confidence_score |->
                        metrics.timing_score + metrics.committee_correlation_score
                        + metrics.price_movement_score + metrics.volume_anomaly_score,
                    description |-> <<>>,
                    legislative_actions |-> <<>>,
                    price_movement_days |-> 30,
                    price_change_percent |-> <<>>,
                    created_at |-> clock ] >>]

\* _create_alert writing the time of generation into the description
_create_alert_dated_description(transaction, member, metrics, clock) ==
    InsiderTradingAlert(
        [ alert_id |-> <<"alert", transaction.transaction_id, clock>>,
          member_id |-> member.member_id,
          transaction_id |-> transaction.transaction_id,
          alert_type |-> IF metrics.committee_correlation_score > 500
                         THEN "committee_correlation"
                         ELSE "timing_correlation",
          confidence_score |-> metrics.overall_suspicion_score,
          description |-> << "Potential insider trading detected at", clock >>,
          price_change_percent |-> <<>>,
          price_movement_days |-> 30 ],
        clock)

\* _create_alert with a label of its own for an alert that neither the
\* timing nor the committee sub-score contributed to
_create_alert_price_label(transaction, member, metrics, clock) ==
    LET alert_type ==
            IF metrics.committee_correlation_score > 500
            THEN "committee_correlation"
            ELSE IF metrics.timing_score = 0 THEN "price_movement"
            ELSE "timing_correlation"
        description ==
            << "Potential insider trading detected: ", member.name,
               lower(transaction.transaction_type) \o <<"e", "d">>,
               transaction.ticker, "on", transaction.transaction_date,
               "with suspicion score", Format2f(metrics) >>
    IN  InsiderTradingAlert(
            [ alert_id |-> <<"alert", transaction.transaction_id, clock>>,
              member_id |-> member.member_id,
              transaction_id |-> transaction.transaction_id,
              alert_type |-> alert_type,
              confidence_score |-> metrics.overall_suspicion_score,
              description |-> description,
              price_change_percent |-> <<>>,
              price_movement_days |-> 30 ],
            clock)

_create_alert(transaction, member, metrics, clock) ==
    LET alert_type ==
            IF metrics.committee_correlation_score > 500
            THEN "committee_correlation" ELSE "timing_correlation"
        description ==
            << "Potential insider trading detected: ", member.name,
               lower(transaction.transaction_type) \o <<"e", "d">>,
               transaction.ticker, "on", transaction.transaction_date,
               "with suspicion score", Format2f(metrics) >>
    IN  InsiderTradingAlert(
            [ alert_id |-> <<"alert", transaction.transaction_id, clock>>,
              member_id |-> member.member_id,
              transaction_id |-> transaction.transaction_id,
              alert_type |-> alert_type,
              confidence_score |-> metrics.overall_suspicion_score,
              description |-> description,
              price_change_percent |-> <<>>,
              price_movement_days |-> 30 ],
            clock)

\* ReachesThreshold with the bound excluded
ReachesThresholdStrict(self, metrics) ==
    metrics.overall_suspicion_score > self.min_confidence_threshold

\* line 69: the suspicion score reaches the threshold
ReachesThreshold(self, metrics) ==
    metrics.overall_suspicion_score >= self.min_confidence_threshold

\* AppendAlert adding the alert twice
AppendAlertTwice(alert_list, alert) == Append(Append(alert_list, alert), alert)

\* line 71: alerts.append(alert)
AppendAlert(alert_list, alert) == Append(alert_list, alert)

\* line 59: stock_prices.get(transaction.ticker, [])
PricesOf(price_map, ticker) ==
    IF ticker \in DOMAIN price_map THEN price_map[ticker] ELSE <<>>

\* ------------------------------------------------------------------------
\* State
\* ------------------------------------------------------------------------
VARIABLES
    detector,               \* the configuration of the InsiderTradingDetector
    member,                 \* the arguments of the call in progress
    transactions,
    legislative_actions,
    committee_assignments,
    stock_prices,
    pc,                     \* "idle", "loop", "returned", "raised", or the
                            \* name of the sub-score a direct call computed
    i,                      \* position of the for loop in transactions
    alerts,                 \* the local list; the return value once returned
    metrics,                \* the local of the loop: None or AnalysisMetrics
    exc,                    \* the exception that left the call, or "none"
    now,                    \* the wall clock, in seconds
    results,                \* the lists the earlier calls on the detector
                            \* returned to their callers, oldest first
    frames,                 \* the frames of the calls that run concurrently,
                            \* each with locals of its own
    fields,                 \* the keyword arguments of a direct construction
                            \* of an InsiderTradingAlert
    pipeline                \* the locals of the orchestrator's
                            \* run_full_pipeline, or <<>> outside a run

vars == << detector, member, transactions, legislative_actions,
           committee_assignments, stock_prices, pc, i, alerts, metrics,
           exc, now, results, frames, fields, pipeline >>

inputs == << member, transactions, legislative_actions,
             committee_assignments, stock_prices >>

\* what a single call of analyze_member_activity does not touch
outside == << frames, fields, pipeline >>


\* ------------------------------------------------------------------------
\* Inputs explored: the fixtures of tests/test_detector.py and variations
\* ------------------------------------------------------------------------
Day(offset) == 100 + offset

TestMember == [member_id |-> "S001", name |-> "Test Member"]

StockTransaction(id, ticker, company_name, type, day) ==
    [ transaction_id |-> id, member_id |-> "S001", ticker |-> ticker,
      company_name |-> company_name, transaction_type |-> type,
      transaction_date |-> day ]

LegislativeAction(id, member_id, title, when, industries) ==
    [ action_id |-> id, member_id |-> member_id, bill_title |-> title,
      action_date |-> when, industries_affected |-> industries ]

CommitteeAssignment(name) ==
    [ member_id |-> "S001", committee_name |-> name ]

StockPrice(ticker, day, close, volume) ==
    [ ticker |-> ticker, price_date |-> day, close_price |-> close,
      volume |-> volume ]

AAPL == <<"A", "A", "P", "L">>
GOOGL == <<"G", "O", "O", "G", "L">>

TxApple == StockTransaction("txn_001", AAPL, <<"A", "p", "p", "l", "e", " ", "I", "n", "c", ".">>, <<"B", "u", "y">>, Day(0))
TxAlphabet ==
    StockTransaction("txn_002", GOOGL, <<"A", "l", "p", "h", "a", "b", "e", "t", " ", "I", "n", "c", " ", "T", "e", "c", "h", "n", "o", "l", "o", "g", "y">>, <<"S", "e", "l", "l">>, Day(0))

TxSet == { TxApple, TxAlphabet }

TechnologyInnovationAct == <<"T", "e", "c", "h", "n", "o", "l", "o", "g", "y", " ", "I", "n", "n", "o", "v", "a", "t", "i", "o", "n", " ", "A", "c", "t", " ", "a", "f", "f", "e", "c", "t", "i", "n", "g", " ", "A", "p", "p", "l", "e", " ", "I", "n", "c", ".">>

\* all relevant to both transactions: 9 days after, 3 days before and
\* 20 days after
ActionList ==
    << LegislativeAction("vote_001", "S001", TechnologyInnovationAct,
                         datetime(Day(9), 0), <<>>),
       LegislativeAction("vote_002", "S002", TechnologyInnovationAct,
                         datetime(Day(-3), 14), <<<<"t", "e", "c", "h", "n", "o", "l", "o", "g", "y">>>>),
       LegislativeAction("vote_003", "S001", TechnologyInnovationAct,
                         datetime(Day(20), 0), <<>>) >>

\* the first actions of the list, MaxActions of them at most
ActionLists ==
    { SubSeq(ActionList, 1, n) : n \in 0..Min(MaxActions, Len(ActionList)) }

CommitteeSet ==
    { CommitteeAssignment(<<"S", "c", "i", "e", "n", "c", "e", ",", " ", "S", "p", "a", "c", "e", ",", " ", "a", "n", "d", " ", "T", "e", "c", "h", "n", "o", "l", "o", "g", "y">>) }

\* price series of one ticker
SeriesRise20(t) ==
    << StockPrice(t, Day(0), 150, 100), StockPrice(t, Day(5), 180, 100) >>
SeriesRise25(t) ==
    << StockPrice(t, Day(-30), 100, 100), StockPrice(t, Day(-20), 100, 100),
       StockPrice(t, Day(0), 100, 500), StockPrice(t, Day(30), 125, 100) >>
SeriesFall20(t) ==
    << StockPrice(t, Day(-10), 100, 100), StockPrice(t, Day(0), 100, 130),
       StockPrice(t, Day(10), 79, 100) >>
SeriesZeroClose(t) ==
    << StockPrice(t, Day(0), 0, 100), StockPrice(t, Day(1), 10, 100) >>
SeriesNoDayBar(t) ==
    << StockPrice(t, Day(-20), 100, 100), StockPrice(t, Day(-1), 100, 900),
       StockPrice(t, Day(1), 200, 900) >>

SeriesSet(t) ==
    IF t = AAPL
    THEN { <<>>, SeriesRise20(t), SeriesRise25(t), SeriesZeroClose(t),
           SeriesNoDayBar(t) }
    ELSE { <<>>, SeriesFall20(t), SeriesNoDayBar(t) }

\* the sequences over S of length at most n
SeqsUpTo(S, n) == UNION { [1..k -> S] : k \in 0..n }

\* the dicts from some of the tickers to a series of that ticker
PriceMaps ==
    UNION { { f \in [D -> UNION { SeriesSet(t) : t \in D }] :
                \A t \in D : f[t] \in SeriesSet(t) } : D \in SUBSET {AAPL, GOOGL} }

\* ------------------------------------------------------------------------
\* analyze_member_activity
\* ------------------------------------------------------------------------
Init ==
    /\ detector = DetectorInit
    /\ member = TestMember
    /\ transactions = <<>>
    /\ legislative_actions = <<>>
    /\ committee_assignments = <<>>
    /\ stock_prices = <<>>
    /\ pc = "idle"
    /\ i = 0
    /\ alerts = <<>>
    /\ metrics = <<>>
    /\ exc = "none"
    /\ now = 0
    /\ results = <<>>
    /\ frames = <<>>
    /\ fields = <<>>
    /\ pipeline = <<>>

\* the call: the arguments are bound, alerts = []
Call ==
    /\ pc = "idle"
    /\ \E txs \in SeqsUpTo(TxSet, MaxTx),
          las \in ActionLists,
          cas \in {<<>>} \cup { <<c>> : c \in CommitteeSet },
          sp \in PriceMaps :
          /\ transactions' = txs
          /\ legislative_actions' = las
          /\ committee_assignments' = cas
          /\ stock_prices' = sp
    /\ member' = TestMember
    /\ pc' = "loop"
    /\ i' = 1
    /\ alerts' = <<>>
    /\ UNCHANGED << detector, results, outside, metrics, exc, now >>

\* SkipTransaction leaving the loop instead of going on
SkipTransactionBreak ==
    /\ pc = "loop"
    /\ i <= Len(transactions)
    /\ PricesOf(stock_prices, transactions[i].ticker) = <<>>
    /\ i' = Len(transactions) + 1
    /\ UNCHANGED << detector, results, outside, inputs, pc, alerts, metrics, exc, now >>

\* lines 59-61: no prices for the ticker, continue
SkipTransaction ==
    /\ pc = "loop"
    /\ i <= Len(transactions)
    /\ PricesOf(stock_prices, transactions[i].ticker) = <<>>
    /\ i' = i + 1
    /\ UNCHANGED << detector, results, outside, inputs, pc, alerts, metrics, exc, now >>

\* line 64: the analysis of the transaction the loop is at
Analysis ==
    _analyze_transaction(detector, transactions[i], member, legislative_actions,
                         committee_assignments,
                         PricesOf(stock_prices, transactions[i].ticker))

\* lines 69-71: the alert list after the iteration, or the exception of
\* the alert's construction; clock is what datetime.now() answers
Alerted(analysed, clock) ==
    LET created == _create_alert(transactions[i], member, analysed, clock)
    IN  IF ~ReachesThreshold(detector, analysed)
        THEN [exc |-> "none", alerts |-> alerts, built |-> FALSE]
        ELSE IF created.exc # "none"
        THEN [exc |-> created.exc, alerts |-> <<>>, built |-> TRUE]
        ELSE [exc |-> "none", alerts |-> AppendAlert(alerts, created.alert[1]),
              built |-> TRUE]

\* lines 63-71: the transaction is scored, and alerted when the score
\* reaches the threshold; the clock has not gone back since it was last read
ScoreTransaction ==
    /\ pc = "loop"
    /\ i <= Len(transactions)
    /\ PricesOf(stock_prices, transactions[i].ticker) # <<>>
    /\ LET analysis == Analysis
       IN  /\ analysis.exc = "none"
           /\ metrics' = <<analysis.metrics>>
           /\ \E clock \in now..MaxClock :
                 LET after == Alerted(analysis.metrics, clock)
                 IN  /\ after.exc = "none"
                     /\ now' = IF after.built THEN clock ELSE now
                     /\ alerts' = after.alerts
    /\ i' = i + 1
    /\ UNCHANGED << detector, results, outside, inputs, pc, exc >>

\* an exception raised while scoring or while building the alert leaves
\* analyze_member_activity: nothing is returned
RaiseInTransaction ==
    /\ pc = "loop"
    /\ i <= Len(transactions)
    /\ PricesOf(stock_prices, transactions[i].ticker) # <<>>
    /\ LET analysis == Analysis
       IN  \/ /\ analysis.exc # "none"
              /\ exc' = analysis.exc
              /\ UNCHANGED << metrics, now >>
           \/ /\ analysis.exc = "none"
              /\ metrics' = <<analysis.metrics>>
              /\ \E clock \in now..MaxClock :
                    LET after == Alerted(analysis.metrics, clock)
                    IN  /\ after.exc # "none"
                        /\ exc' = after.exc
                        /\ now' = clock
    /\ pc' = "raised"
    /\ alerts' = <<>>
    /\ UNCHANGED << detector, results, outside, inputs, i >>

\* line 73: return alerts; the caller holds the list from now on
Return ==
    /\ pc = "loop"
    /\ i > Len(transactions)
    /\ pc' = "returned"
    /\ results' = Append(results, alerts)
    /\ UNCHANGED << detector, outside, inputs, i, alerts, metrics, exc, now >>

Next ==
    \/ Call
    \/ SkipTransaction
    \/ ScoreTransaction
    \/ RaiseInTransaction
    \/ Return

Spec == Init /\ [][Next]_vars

\* ------------------------------------------------------------------------
\* Direct calls of the sub-score functions, as the tests make them
\* ------------------------------------------------------------------------
\* the state before a direct call: only the arguments vary
DirectCallInit ==
    /\ detector = DetectorInit
    /\ member = TestMember
    /\ pc = "idle"
    /\ i = 1
    /\ alerts = <<>>
    /\ metrics = <<>>
    /\ exc = "none"
    /\ now = 0
    /\ results = <<>>
    /\ frames = <<>>
    /\ fields = <<>>
    /\ pipeline = <<>>

\* _calculate_timing_score -----------------------------------------------
\* relevant actions at every edge of the three bands and of the window,
\* some late in the day, one that is not relevant, one that names the
\* ticker of Apple and no word of a company name, and one that holds the
\* short word "inc" of a company name and nothing else of it
TimingActionSet ==
    { LegislativeAction("vote", "S001", TechnologyInnovationAct,
                        datetime(Day(d), 0), <<>>) :
        d \in {-31, -30, -8, -7, -1, 0, 14, 15, 30, 31} }
    \cup
    { LegislativeAction("vote", "S002", TechnologyInnovationAct,
                        datetime(Day(d), 23), <<>>) : d \in {-1, 14, 30} }
    \cup
    { LegislativeAction("vote", "S001", <<"F", "a", "r", "m", " ", "B", "i", "l", "l">>,
                        datetime(Day(5), 0), <<<<"a", "g", "r", "i", "c", "u", "l", "t", "u", "r", "e">>>>),
      LegislativeAction("vote", "S001", <<"A", "A", "P", "L", " ", "D", "i", "s", "c", "l", "o", "s", "u", "r", "e", " ", "A", "c", "t">>,
                        datetime(Day(5), 0), <<>>),
      LegislativeAction("vote", "S001", <<"Z", "i", "n", "c", " ", "M", "i", "n", "i", "n", "g", " ", "A", "c", "t">>,
                        datetime(Day(5), 0), <<>>) }

InitTiming ==
    /\ DirectCallInit
    /\ transactions \in { <<tx>> : tx \in TxSet }
    /\ legislative_actions \in SeqsUpTo(TimingActionSet, MaxTimingActions)
    /\ committee_assignments = <<>>
    /\ stock_prices = <<>>

CalcTiming ==
    /\ pc = "idle"
    /\ metrics' = << [AnalysisMetrics EXCEPT !.timing_score =
                        _calculate_timing_score(detector, transactions[1],
                                                legislative_actions, <<>>)] >>
    /\ pc' = "timing"
    /\ UNCHANGED << detector, results, outside, inputs, i, alerts, exc, now >>

NextTiming == CalcTiming

SpecTiming == InitTiming /\ [][NextTiming]_vars

\* _calculate_committee_correlation --------------------------------------
CompanySet ==
    { <<"A", "l", "p", "h", "a", "b", "e", "t", " ", "I", "n", "c", " ", "T", "e", "c", "h", "n", "o", "l", "o", "g", "y">>, <<"A", "p", "p", "l", "e", " ", "I", "n", "c", ".">>, <<"R", "a", "n", "d", "o", "m", " ", "C", "o", "r", "p">>,
      <<"A", "i", "r", "l", "i", "n", "e", " ", "T", "e", "c", "h", "n", "o", "l", "o", "g", "y", " ", "P", "a", "r", "t", "n", "e", "r", "s">>, <<"F", "i", "r", "s", "t", " ", "B", "a", "n", "k">>,
      <<"G", "a", "s", "o", "l", "i", "n", "e", " ", "A", "l", "l", "e", "y", " ", "F", "o", "o", "d", "s">> }

CommitteeNameSet ==
    { <<"C", "o", "m", "m", "e", "r", "c", "e", ",", " ", "S", "c", "i", "e", "n", "c", "e", ",", " ", "a", "n", "d", " ", "T", "r", "a", "n", "s", "p", "o", "r", "t", "a", "t", "i", "o", "n">>,
      <<"S", "c", "i", "e", "n", "c", "e", ",", " ", "S", "p", "a", "c", "e", ",", " ", "a", "n", "d", " ", "T", "e", "c", "h", "n", "o", "l", "o", "g", "y">>,
      <<"B", "a", "n", "k", "i", "n", "g", ",", " ", "H", "o", "u", "s", "i", "n", "g", ",", " ", "a", "n", "d", " ", "U", "r", "b", "a", "n", " ", "A", "f", "f", "a", "i", "r", "s">>,
      <<"E", "n", "e", "r", "g", "y", " ", "a", "n", "d", " ", "N", "a", "t", "u", "r", "a", "l", " ", "R", "e", "s", "o", "u", "r", "c", "e", "s">> }

InitCommittee ==
    /\ DirectCallInit
    /\ transactions \in
         { << StockTransaction("txn_002", GOOGL, c, <<"B", "u", "y">>, Day(0)) >> :
             c \in CompanySet }
    /\ legislative_actions = <<>>
    /\ committee_assignments \in
         SeqsUpTo({ CommitteeAssignment(n) : n \in CommitteeNameSet },
                  MaxCommitteeList)
    /\ stock_prices = <<>>

CalcCommittee ==
    /\ pc = "idle"
    /\ metrics' = << [AnalysisMetrics EXCEPT !.committee_correlation_score =
                        _calculate_committee_correlation(transactions[1],
                                                         committee_assignments)] >>
    /\ pc' = "committee"
    /\ UNCHANGED << detector, results, outside, inputs, i, alerts, exc, now >>

NextCommittee == CalcCommittee

SpecCommittee == InitCommittee /\ [][NextCommittee]_vars

\* _calculate_price_movement_score, _calculate_volume_anomaly_score -------
BarSet ==
    { StockPrice(AAPL, Day(0), c, 500) : c \in {100, 150, 0} }
    \cup { StockPrice(AAPL, Day(1), c, 100) : c \in {105, 110, 180, 90, 80, 0} }
    \cup { StockPrice(AAPL, Day(30), 125, 100),
           StockPrice(AAPL, Day(31), 200, 100),
           StockPrice(AAPL, Day(-20), 100, 100) }

TypeSet == { <<"B", "u", "y">>, <<"P", "U", "R", "C", "H", "A", "S", "E">>, <<"S", "e", "l", "l">>, <<"E", "x", "c", "h", "a", "n", "g", "e">> }

InitPrice ==
    /\ DirectCallInit
    /\ transactions \in
         { << StockTransaction("txn_003", AAPL, <<"A", "p", "p", "l", "e", " ", "I", "n", "c", ".">>, ty, Day(0)) >> :
             ty \in TypeSet }
    /\ legislative_actions = <<>>
    /\ committee_assignments = <<>>
    /\ stock_prices \in { (AAPL :> bars) : bars \in SeqsUpTo(BarSet, MaxBars) }

\* lines 97-99
CalcPrice ==
    /\ pc = "idle"
    /\ LET result == _calculate_price_movement_score(transactions[1],
                                                     stock_prices[AAPL])
       IN  /\ exc' = result.exc
           /\ pc' = IF result.exc = "none" THEN "price" ELSE "raised"
           /\ metrics' = IF result.exc = "none"
                         THEN << [AnalysisMetrics EXCEPT
                                    !.price_movement_score = result.value] >>
                         ELSE metrics
    /\ UNCHANGED << detector, results, outside, inputs, i, alerts, now >>

\* lines 102-104
CalcVolume ==
    /\ pc = "price"
    /\ metrics' = << [metrics[1] EXCEPT !.volume_anomaly_score =
                        _calculate_volume_anomaly_score(transactions[1],
                                                        stock_prices[AAPL])] >>
    /\ pc' = "volume"
    /\ UNCHANGED << detector, results, outside, inputs, i, alerts, exc, now >>

NextPrice == CalcPrice \/ CalcVolume

SpecPrice == InitPrice /\ [][NextPrice]_vars

\* ------------------------------------------------------------------------
\* analyze_member_activity called again on the same detector with the
\* same arguments, as a caller that re-scores a member does
\* ------------------------------------------------------------------------
\* the arguments of the calls that are repeated
RepeatTxLists == { <<TxApple>>, <<TxAlphabet, TxApple>> }

RepeatPriceMaps ==
    { (AAPL :> SeriesRise25(AAPL)) @@ (GOOGL :> SeriesFall20(GOOGL)),
      (AAPL :> SeriesNoDayBar(AAPL)),
      (AAPL :> SeriesZeroClose(AAPL)) @@ (GOOGL :> SeriesFall20(GOOGL)),
      (GOOGL :> SeriesNoDayBar(GOOGL)) }

\* the first call: the arguments are bound, alerts = []
CallFirst ==
    /\ pc = "idle"
    /\ \E txs \in RepeatTxLists,
          las \in ActionLists,
          cas \in {<<>>} \cup { <<c>> : c \in CommitteeSet },
          sp \in RepeatPriceMaps :
          /\ transactions' = txs
          /\ legislative_actions' = las
          /\ committee_assignments' = cas
          /\ stock_prices' = sp
    /\ member' = TestMember
    /\ pc' = "loop"
    /\ i' = 1
    /\ alerts' = <<>>
    /\ UNCHANGED << detector, results, outside, metrics, exc, now >>

\* the call after a call that returned, with the same arguments: a new
\* frame, alerts = []
CallAgain ==
    /\ pc = "returned"
    /\ Len(results) < MaxCalls
    /\ pc' = "loop"
    /\ i' = 1
    /\ alerts' = <<>>
    /\ metrics' = <<>>
    /\ UNCHANGED << detector, results, outside, inputs, exc, now >>

NextRepeat ==
    \/ CallFirst
    \/ SkipTransaction
    \/ ScoreTransaction
    \/ RaiseInTransaction
    \/ Return
    \/ CallAgain

SpecRepeat == Init /\ [][NextRepeat]_vars

\* ------------------------------------------------------------------------
\* Calls of analyze_member_activity that run concurrently on one detector
\* and one price table, as a worker pool over members makes them.  Each
\* call has a frame with its arguments and locals; the detector and the
\* price table are only read.  A step is one statement group of the loop:
\* the price lookup, the analysis, the decision.  The clock stands still:
\* the alerts of concurrent calls are compared without their time fields.
\* ------------------------------------------------------------------------
OtherMember == [member_id |-> "S002", name |-> "Other Member"]

Frame(m, txs, las, cas) ==
    [ member |-> m, transactions |-> txs, legislative_actions |-> las,
      committee_assignments |-> cas,
      pc |-> "loop", i |-> 1, alerts |-> <<>>, metrics |-> <<>>,
      exc |-> "none" ]

\* the calls a pool may run: different members and transactions
FrameSet ==
    { Frame(TestMember, <<TxApple>>, SubSeq(ActionList, 1, 2), <<>>),
      Frame(OtherMember, <<TxAlphabet>>, <<>>,
            << CommitteeAssignment(<<"S", "c", "i", "e", "n", "c", "e", ",", " ", "S", "p", "a", "c", "e", ",", " ", "a", "n", "d", " ", "T", "e", "c", "h", "n", "o", "l", "o", "g", "y">>) >>),
      Frame(TestMember, <<TxAlphabet, TxApple>>, SubSeq(ActionList, 1, 1),
            <<>>) }

SharedPriceTables ==
    { (AAPL :> SeriesRise25(AAPL)) @@ (GOOGL :> SeriesFall20(GOOGL)),
      (AAPL :> SeriesZeroClose(AAPL)) @@ (GOOGL :> SeriesFall20(GOOGL)),
      (AAPL :> SeriesNoDayBar(AAPL)) }

InitConcurrent ==
    /\ detector = DetectorInit
    /\ member = TestMember
    /\ transactions = <<>>
    /\ legislative_actions = <<>>
    /\ committee_assignments = <<>>
    /\ stock_prices \in SharedPriceTables
    /\ pc = "idle"
    /\ i = 0
    /\ alerts = <<>>
    /\ metrics = <<>>
    /\ exc = "none"
    /\ now = 0
    /\ results = <<>>
    /\ frames \in UNION { [1..n -> FrameSet] : n \in 2..MaxWorkers }
    /\ fields = <<>>
    /\ pipeline = <<>>

\* the alerts list of a frame, should it be one list for all frames
SharedAlerts(fs, w) == fs[1].alerts

\* line 55: alerts = [] is a local of the call
FrameAlerts(fs, w) == fs[w].alerts

\* the transaction the loop of frame w is at
FrameTransaction(w) == frames[w].transactions[frames[w].i]

\* lines 59-61 in frame w: no prices, continue
FrameSkip(w) ==
    /\ frames[w].pc = "loop"
    /\ frames[w].i <= Len(frames[w].transactions)
    /\ PricesOf(stock_prices, FrameTransaction(w).ticker) = <<>>
    /\ frames' = [frames EXCEPT ![w].i = @ + 1]
    /\ UNCHANGED << detector, inputs, pc, i, alerts, metrics, exc, now,
                    results, fields, pipeline >>

\* lines 59-60 in frame w: prices found
FrameFetch(w) ==
    /\ frames[w].pc = "loop"
    /\ frames[w].i <= Len(frames[w].transactions)
    /\ PricesOf(stock_prices, FrameTransaction(w).ticker) # <<>>
    /\ frames' = [frames EXCEPT ![w].pc = "analyze"]
    /\ UNCHANGED << detector, inputs, pc, i, alerts, metrics, exc, now,
                    results, fields, pipeline >>

\* lines 64-66 in frame w: the analysis, or the exception that leaves the
\* call
FrameAnalyze(w) ==
    /\ frames[w].pc = "analyze"
    /\ LET analysis ==
               _analyze_transaction(detector, FrameTransaction(w),
                   frames[w].member, frames[w].legislative_actions,
                   frames[w].committee_assignments,
                   PricesOf(stock_prices, FrameTransaction(w).ticker))
       IN  frames' =
              IF analysis.exc = "none"
              THEN [frames EXCEPT ![w].metrics = <<analysis.metrics>>,
                                  ![w].pc = "decide"]
              ELSE [frames EXCEPT ![w].exc = analysis.exc,
                                  ![w].pc = "raised",
                                  ![w].alerts = <<>>]
    /\ UNCHANGED << detector, inputs, pc, i, alerts, metrics, exc, now,
                    results, fields, pipeline >>

\* lines 69-71 in frame w: the alert is built and appended when the score
\* reaches the threshold
FrameDecide(w) ==
    /\ frames[w].pc = "decide"
    /\ LET created == _create_alert(FrameTransaction(w), frames[w].member,
                                    frames[w].metrics[1], now)
       IN  frames' =
              IF ~ReachesThreshold(detector, frames[w].metrics[1])
              THEN [frames EXCEPT ![w].pc = "loop", ![w].i = @ + 1]
              ELSE IF created.exc # "none"
              THEN [frames EXCEPT ![w].exc = created.exc,
                                  ![w].pc = "raised",
                                  ![w].alerts = <<>>]
              ELSE [frames EXCEPT
                      ![w].alerts = AppendAlert(FrameAlerts(frames, w),
                                                created.alert[1]),
                      ![w].pc = "loop", ![w].i = @ + 1]
    /\ UNCHANGED << detector, inputs, pc, i, alerts, metrics, exc, now,
                    results, fields, pipeline >>

\* line 73 in frame w
FrameReturn(w) ==
    /\ frames[w].pc = "loop"
    /\ frames[w].i > Len(frames[w].transactions)
    /\ frames' = [frames EXCEPT ![w].pc = "returned"]
    /\ UNCHANGED << detector, inputs, pc, i, alerts, metrics, exc, now,
                    results, fields, pipeline >>

NextConcurrent ==
    \/ \E w \in 1..Len(frames) : FrameSkip(w)
    \/ \E w \in 1..Len(frames) : FrameFetch(w)
    \/ \E w \in 1..Len(frames) : FrameAnalyze(w)
    \/ \E w \in 1..Len(frames) : FrameDecide(w)
    \/ \E w \in 1..Len(frames) : FrameReturn(w)

SpecConcurrent == InitConcurrent /\ [][NextConcurrent]_vars

\* ------------------------------------------------------------------------
\* Direct construction of an InsiderTradingAlert, as tests/test_models.py
\* does it
\* ------------------------------------------------------------------------
\* scores below, at, inside and above the ends of [0, 1]
ConfidenceSet == { -1000, -1, 0, 1, 300, 750, 999, 1000, 1001, 1500 }

AlertFieldsSet ==
    { [ alert_id |-> "alert_002", member_id |-> "S001",
        transaction_id |-> tid, alert_type |-> ty,
        confidence_score |-> c, description |-> "Test alert",
        price_movement_days |-> days, price_change_percent |-> <<>> ] :
        tid \in {"txn_001", "txn_002"},
        ty \in {"test", "timing_correlation"},
        c \in ConfidenceSet,
        days \in {14, 30} }

InitAlertModel ==
    /\ DirectCallInit
    /\ transactions = <<>>
    /\ legislative_actions = <<>>
    /\ committee_assignments = <<>>
    /\ stock_prices = <<>>

\* the keyword arguments are chosen
ChooseFields ==
    /\ pc = "idle"
    /\ fields = <<>>
    /\ fields' \in { <<f>> : f \in AlertFieldsSet }
    /\ UNCHANGED << detector, inputs, pc, i, alerts, metrics, exc, now,
                    results, frames, pipeline >>

\* InsiderTradingAlert(**fields): the alert, or the validation error;
\* created_at is what datetime.now() answers
Construct ==
    /\ pc = "idle"
    /\ fields # <<>>
    /\ \E clock \in now..MaxClock :
          LET built == InsiderTradingAlert(fields[1], clock)
          IN  /\ exc' = built.exc
              /\ alerts' = built.alert
              /\ pc' = IF built.exc = "none" THEN "constructed" ELSE "raised"
              /\ now' = clock
    /\ UNCHANGED << detector, inputs, i, metrics, results, frames, fields, pipeline >>

NextAlertModel == ChooseFields \/ Construct

SpecAlertModel == InitAlertModel /\ [][NextAlertModel]_vars

\* ---------------------------------------------------------------------
\* The volume anomaly score called on bars around the baseline window
\* ---------------------------------------------------------------------

\* bars of the transaction date with several volumes, bars on the first and
\* the last date of the baseline window and inside it, and heavy bars just
\* outside the window on either side, on the eve and on the morrow
VolumeBarSet ==
    { StockPrice(AAPL, Day(0), 100, v) : v \in {90, 100, 101, 103, 120, 160} }
    \cup { StockPrice(AAPL, Day(-37), 100, 100),
           StockPrice(AAPL, Day(-8), 100, 100),
           StockPrice(AAPL, Day(-20), 100, 90),
           StockPrice(AAPL, Day(-21), 100, 110) }
    \cup { StockPrice(AAPL, Day(d), 100, 1000) : d \in {-38, -7, -1, 1} }

InitVolume ==
    /\ DirectCallInit
    /\ transactions =
         << StockTransaction("txn_004", AAPL, <<"A", "p", "p", "l", "e", " ", "I", "n", "c", ".">>, <<"B", "u", "y">>, Day(0)) >>
    /\ legislative_actions = <<>>
    /\ committee_assignments = <<>>
    /\ stock_prices \in { (AAPL :> bars) : bars \in SeqsUpTo(VolumeBarSet, MaxBars) }

SpecVolume == InitVolume /\ [][NextPrice]_vars

\* ------------------------------------------------------------------------
\* analyze_member_activity called on the same detector for one set of
\* transactions and prices after another
\* ------------------------------------------------------------------------

\* CallOther with the alert list kept by the detector from call to call
CallOtherKeepingAlerts ==
    /\ pc = "returned"
    /\ Len(results) < MaxCalls
    /\ \E txs \in RepeatTxLists, sp \in RepeatPriceMaps :
          /\ transactions' = txs
          /\ stock_prices' = sp
    /\ pc' = "loop"
    /\ i' = 1
    /\ metrics' = <<>>
    /\ UNCHANGED << detector, results, outside, member, legislative_actions,
                    committee_assignments, alerts, exc, now >>

\* the call after a call that returned, with other transactions and
\* prices: the arguments are bound anew, alerts = []
CallOther ==
    /\ pc = "returned"
    /\ Len(results) < MaxCalls
    /\ \E txs \in RepeatTxLists, sp \in RepeatPriceMaps :
          /\ transactions' = txs
          /\ stock_prices' = sp
    /\ pc' = "loop"
    /\ i' = 1
    /\ alerts' = <<>>
    /\ metrics' = <<>>
    /\ UNCHANGED << detector, results, outside, member, legislative_actions,
                    committee_assignments, exc, now >>

NextSuccessive ==
    \/ CallFirst
    \/ SkipTransaction
    \/ ScoreTransaction
    \/ RaiseInTransaction
    \/ Return
    \/ CallOther

SpecSuccessive == Init /\ [][NextSuccessive]_vars

\* ------------------------------------------------------------------------
\* analyze_member_activity called for one transaction whose four
\* sub-scores take each of their values
\* ------------------------------------------------------------------------

\* relevant actions 3 days after, 3 days before and 20 days after the
\* transactions
ScoredActionSet ==
    { LegislativeAction("vote_004", "S001", TechnologyInnovationAct,
                        datetime(Day(d), 0), <<>>) : d \in {3, -3, 20} }

\* a bar of volume 100 in the baseline window, the bar of the day closing
\* at 100 and a later bar
ScoredSeries(t, day_volume, later_close) ==
    << StockPrice(t, Day(-20), 100, 100), StockPrice(t, Day(0), 100, day_volume),
       StockPrice(t, Day(5), later_close, 100) >>

\* the series of a ticker: volumes of the day 0, 1, 2 and 3 deviations
\* above the baseline, later closes level with the day, 6%, 11% and 25% to
\* the good of the buy of AAPL or of the sale of GOOGL and 10% to the bad
\* of the buy; and a zero close
ScoredSeriesSet(t) ==
    { ScoredSeries(t, v, c) :
        v \in {100, 120, 140, 160},
        c \in IF t = AAPL THEN {100, 106, 111, 125, 90} ELSE {100, 94, 89, 75} }
    \cup { SeriesZeroClose(t) }

\* the dicts of one ticker
ScoredPriceMaps ==
    { (t :> s) : <<t, s>> \in UNION { {t} \X ScoredSeriesSet(t) : t \in {AAPL, GOOGL} } }

\* the call for one transaction: the arguments are bound, alerts = []
CallScored ==
    /\ pc = "idle"
    /\ \E tx \in TxSet,
          las \in SeqsUpTo(ScoredActionSet, MaxActions),
          cas \in {<<>>} \cup { <<c>> : c \in CommitteeSet },
          sp \in ScoredPriceMaps :
          /\ transactions' = <<tx>>
          /\ legislative_actions' = las
          /\ committee_assignments' = cas
          /\ stock_prices' = sp
    /\ member' = TestMember
    /\ pc' = "loop"
    /\ i' = 1
    /\ alerts' = <<>>
    /\ UNCHANGED << detector, results, outside, metrics, exc, now >>

NextScored ==
    \/ CallScored
    \/ SkipTransaction
    \/ ScoreTransaction
    \/ RaiseInTransaction
    \/ Return

SpecScored == Init /\ [][NextScored]_vars

\* ------------------------------------------------------------------------
\* The orchestrator: run_full_pipeline over the collected members
\* ------------------------------------------------------------------------
ThirdMember == [member_id |-> "S003", name |-> "Third Member"]

Roster == << TestMember, OtherMember, ThirdMember >>

\* what get_current_members answers: the first members of the roster
MemberLists ==
    { SubSeq(Roster, 1, n) : n \in 0..Min(MaxMembers, Len(Roster)) }

\* what the price service holds for the tickers
MarketSet ==
    { (AAPL :> SeriesRise25(AAPL)) @@ (GOOGL :> SeriesFall20(GOOGL)),
      (AAPL :> SeriesZeroClose(AAPL)) @@ (GOOGL :> SeriesFall20(GOOGL)) }

\* the collector call of _process_member that raises, if one does
FaultSet == { "none", "disclosures", "votes", "committees" }

\* lines 57-71 of the detector for one transaction, from its prices, its
\* analysis and the alert made of it: the alert appended, if any, or the
\* exception raised
OutcomeFrom(self, prices, analysis, created) ==
    IF prices = <<>> THEN [exc |-> "none", alerts |-> <<>>]
    ELSE IF analysis.exc # "none"
    THEN [exc |-> analysis.exc, alerts |-> <<>>]
    ELSE IF ~ReachesThreshold(self, analysis.metrics)
    THEN [exc |-> "none", alerts |-> <<>>]
    ELSE IF created.exc # "none"
    THEN [exc |-> created.exc, alerts |-> <<>>]
    ELSE [exc |-> "none", alerts |-> created.alert]

\* lines 57-71 for the transaction tx; the analysis is made once
TransactionOutcome(self, m, tx, las, cas, prices, clock) ==
    CHOOSE outcome \in
        { OutcomeFrom(self, prices, analysis,
                      _create_alert(tx, m, analysis.metrics, clock)) :
            analysis \in { _analyze_transaction(self, tx, m, las, cas, prices) } } :
        TRUE

\* the outcome of the loop from the outcomes of its transactions: the
\* first exception raised, or the alerts in the order of the transactions
LoopOutcome(outcomes) ==
    LET Raises(o) == o.exc # "none"
        Alerts(o) == o.alerts # <<>>
        raising == SelectSeq(outcomes, Raises)
        alerting == SelectSeq(outcomes, Alerts)
    IN  IF raising # <<>> THEN [exc |-> raising[1].exc, alerts |-> <<>>]
        ELSE [exc |-> "none",
              alerts |-> [k \in 1..Len(alerting) |-> alerting[k].alerts[1]]]

\* lines 34-73 of the detector as a function of its arguments: the alerts
\* returned, or the exception that leaves the call
analyze_member_activity(self, m, txs, las, cas, price_map, clock) ==
    CHOOSE returned \in
        { LoopOutcome(outcomes) :
            outcomes \in
              { [k \in 1..Len(txs) |->
                   TransactionOutcome(self, m, txs[k], las, cas,
                                      PricesOf(price_map, txs[k].ticker), clock)] } } :
        TRUE

\* lines 86-135 from the locals and the outcome of the analysis: every
\* exception is caught inside, and the list returned is empty unless the
\* analysis was reached and returned
ProcessedFrom(fault, txs, las, price_map, analysis) ==
    [ alerts |-> IF fault = "none" /\ txs # <<>> /\ analysis.exc = "none"
                 THEN analysis.alerts ELSE <<>>,
      caught |-> IF txs = <<>>
                 THEN IF fault = "disclosures" THEN fault ELSE "none"
                 ELSE IF fault # "none" THEN fault
                 ELSE analysis.exc,
      transactions |-> txs,
      legislative_actions |-> las,
      stock_prices |-> price_map ]

\* lines 86-135: _process_member for the member m, given which collector
\* call raises, the transactions of the disclosures, the series the price
\* service holds and the tickers whose price fetch raises: the list
\* returned, with the locals as they stood and the exception caught
_process_member(self, m, fault, disclosed, market, failed, clock) ==
    LET txs == IF fault = "disclosures" THEN <<>> ELSE disclosed
        reached == fault = "none" /\ txs # <<>>
        las == IF reached THEN SubSeq(ActionList, 1, 1) ELSE <<>>
        tickers == { txs[k].ticker : k \in 1..Len(txs) }
        price_map == IF reached
                     THEN [t \in tickers \ failed |-> market[t]] ELSE <<>>
    IN  CHOOSE processed \in
            { ProcessedFrom(fault, txs, las, price_map, analysis) :
                analysis \in { analyze_member_activity(self, m, txs, las, <<>>,
                                                        price_map, clock) } } :
            TRUE

\* ExtendAlerts keeping the alerts of the last member only
ExtendAlertsReplacing(all_alerts, member_alerts) == member_alerts

\* line 58: all_alerts.extend(member_alerts)
ExtendAlerts(all_alerts, member_alerts) == all_alerts \o member_alerts

\* lines 39-52: the results record is made and the members are collected
CollectMembers ==
    /\ pc = "idle"
    /\ pipeline = <<>>
    /\ \E members \in MemberLists :
          pipeline' = [ members |-> members,
                        k |-> 1,
                        all_alerts |-> <<>>,
                        attempts |-> <<>>,
                        results |-> [ members_collected |-> Len(members),
                                      members_processed |-> 0,
                                      alerts_generated |-> 0,
                                      errors |-> 0 ] ]
    /\ pc' = "members"
    /\ UNCHANGED << detector, inputs, i, alerts, metrics, exc, now, results,
                    frames, fields >>

\* lines 46-52, 80-84: get_current_members raises; the outer handler
\* records the failure and the results record is returned
CollectFails ==
    /\ pc = "idle"
    /\ pipeline = <<>>
    /\ pipeline' = [ members |-> <<>>,
                     k |-> 1,
                     all_alerts |-> <<>>,
                     attempts |-> <<>>,
                     results |-> [ members_collected |-> 0,
                                   members_processed |-> 0,
                                   alerts_generated |-> 0,
                                   errors |-> 1 ] ]
    /\ pc' = "returned"
    /\ UNCHANGED << detector, inputs, i, alerts, metrics, exc, now, results,
                    frames, fields >>

\* lines 56-62: one turn of the loop over the members.  _process_member
\* catches whatever its collectors and the detector raise, so the handler
\* of lines 64-67 has nothing to catch
ProcessMember ==
    /\ pc = "members"
    /\ pipeline.k <= Len(pipeline.members)
    /\ \E fault \in FaultSet,
          disclosed \in RepeatTxLists \cup {<<>>},
          market \in MarketSet,
          failed \in SUBSET {AAPL, GOOGL} :
          \E m \in { pipeline.members[pipeline.k] } :
          \E out \in { _process_member(detector, m, fault, disclosed, market,
                                        failed, now) } :
              /\ member' = m
              /\ transactions' = out.transactions
              /\ legislative_actions' = out.legislative_actions
              /\ committee_assignments' = <<>>
              /\ stock_prices' = out.stock_prices
              /\ alerts' = out.alerts
              /\ exc' = out.caught
              /\ pipeline' =
                   [pipeline EXCEPT
                      !.k = @ + 1,
                      !.all_alerts = ExtendAlerts(@, out.alerts),
                      !.attempts = Append(@, [ member |-> m,
                                               caught |-> out.caught,
                                               transactions |-> out.transactions,
                                               legislative_actions |-> out.legislative_actions,
                                               stock_prices |-> out.stock_prices,
                                               alerts |-> out.alerts ]),
                      !.results.members_processed = @ + 1]
    /\ UNCHANGED << detector, pc, i, metrics, now, results, frames, fields >>

\* lines 69-84: the alerts are counted, _save_results keeps its failures
\* to itself and the results record is returned
FinishPipeline ==
    /\ pc = "members"
    /\ pipeline.k > Len(pipeline.members)
    /\ pipeline' = [pipeline EXCEPT
                      !.results.alerts_generated = Len(pipeline.all_alerts)]
    /\ pc' = "returned"
    /\ UNCHANGED << detector, inputs, i, alerts, metrics, exc, now, results,
                    frames, fields >>

NextPipeline ==
    \/ CollectMembers
    \/ CollectFails
    \/ ProcessMember
    \/ FinishPipeline

SpecPipeline == Init /\ [][NextPipeline]_vars

\* ------------------------------------------------------------------------
\* Properties
\* ------------------------------------------------------------------------
\* the call has not raised: alerts is the list built so far, or returned
Running == pc \in {"loop", "returned"}

\* the transactions the loop has gone past
Processed == SubSeq(transactions, 1, i - 1)

\* the analysis of a transaction of the call, recomputed from the arguments
AnalysisOf(tx) ==
    _analyze_transaction(detector, tx, member, legislative_actions,
                         committee_assignments, PricesOf(stock_prices, tx.ticker))

HasPrices(tx) == PricesOf(stock_prices, tx.ticker) # <<>>

AlertIds == [k \in 1..Len(alerts) |-> alerts[k].transaction_id]

\* C1: every alert of the list that analyze_member_activity builds and
\* returns has a confidence_score between 0 and 1 inclusive.
C1_ConfidenceInUnitInterval ==
    \A k \in 1..Len(alerts) :
        0 <= alerts[k].confidence_score /\ alerts[k].confidence_score <= 1000

\* a call returned an alert with a high score
C1_Witness ==
    /\ pc = "returned"
    /\ \E k \in 1..Len(alerts) : alerts[k].confidence_score >= 800

\* C2: a transaction whose ticker has a non-empty price series is alerted
\* if and only if its combined score is at least 0.3, the bound included:
\* the alerts are, in order, those of the processed transactions that have
\* prices and a score of at least 0.3.
C2_AlertIffScoreReachesThreshold ==
    Running =>
        LET Qualifies(tx) ==
                /\ HasPrices(tx)
                /\ AnalysisOf(tx).metrics.overall_suspicion_score >= 300
            expected == SelectSeq(Processed, Qualifies)
        IN  AlertIds = [k \in 1..Len(expected) |-> expected[k].transaction_id]

\* a returned alert whose score is exactly the threshold
C2_Witness ==
    /\ pc = "returned"
    /\ \E k \in 1..Len(alerts) : alerts[k].confidence_score = 300

C4_OverallIsWeightedSum ==
    /\ WeightedSum(1000, 1000, 1000, 1000) = 1000
    /\ (Running /\ metrics # <<>>) =>
          metrics[1].overall_suspicion_score * 1000 =
              300 * metrics[1].timing_score
            + 250 * metrics[1].committee_correlation_score
            + 350 * metrics[1].price_movement_score
            + 100 * metrics[1].volume_anomaly_score
    /\ Running =>
          \A k \in 1..Len(alerts) :
             \E j \in 1..Len(Processed) :
                /\ Processed[j].transaction_id = alerts[k].transaction_id
                /\ alerts[k].confidence_score * 1000 =
                       300 * _calculate_timing_score(detector, Processed[j],
                                 legislative_actions, <<>>)
                     + 250 * _calculate_committee_correlation(Processed[j],
                                 committee_assignments)
                     + 350 * _calculate_price_movement_score(Processed[j],
                                 PricesOf(stock_prices, Processed[j].ticker)).value
                     + 100 * _calculate_volume_anomaly_score(Processed[j],
                                 PricesOf(stock_prices, Processed[j].ticker))

\* an alert for a transaction whose four sub-scores are all positive
C4_Witness ==
    /\ pc = "returned"
    /\ metrics # <<>>
    /\ metrics[1].timing_score > 0
    /\ metrics[1].committee_correlation_score > 0
    /\ metrics[1].price_movement_score > 0
    /\ metrics[1].volume_anomaly_score > 0
    /\ alerts # <<>>
    /\ alerts[Len(alerts)].confidence_score = metrics[1].overall_suspicion_score

\* the signed day difference of an action, time of day ignored
DaysDifference(action, tx) == date(action.action_date) - tx.transaction_date

\* the actions of the call that are relevant to tx and within 30 days of it
RelevantInWindow(tx) ==
    LET Test(action) ==
            /\ -30 <= DaysDifference(action, tx)
            /\ DaysDifference(action, tx) <= 30
            /\ _is_action_relevant_to_stock(action, tx.ticker, tx.company_name)
    IN  SelectSeq(legislative_actions, Test)

\* C5: each relevant in-window action contributes 0.8 when 0 <= d <= 14,
\* 0.4 when -7 <= d < 0, 0.5 when 15 <= d <= 30 and 0 otherwise, d being
\* its signed day difference from the transaction; the timing score is the
\* sum of the contributions, at most 1.0; so one relevant action 0 to 14
\* days after the transaction gives a score above 0.5.
C5_TimingBands ==
    pc = "timing" =>
        LET tx == transactions[1]
            acts == RelevantInWindow(tx)
            Band(d) == IF d \in 0..14 THEN 800
                       ELSE IF d \in (-7)..(-1) THEN 400
                       ELSE IF d \in 15..30 THEN 500
                       ELSE 0
            total == SumSeq([k \in 1..Len(acts) |-> Band(DaysDifference(acts[k], tx))])
        IN  /\ metrics[1].timing_score = Min(total, 1000)
            /\ (Len(acts) = 1 /\ Len(legislative_actions) = 1
                /\ DaysDifference(acts[1], tx) \in 0..14)
               => metrics[1].timing_score > 500

\* one relevant action 14 days after the transaction, late in the day
C5_Witness ==
    /\ pc = "timing"
    /\ Len(legislative_actions) = 1
    /\ Len(RelevantInWindow(transactions[1])) = 1
    /\ DaysDifference(legislative_actions[1], transactions[1]) = 14
    /\ legislative_actions[1].action_date % 24 = 23
    /\ metrics[1].timing_score = 800

\* C6: a company name containing "Technology", scored against the single
\* committee "Commerce, Science, and Transportation", gets 0.7.
C6_TechnologyCompanyCommerceCommittee ==
    ( /\ pc = "committee"
      /\ Contains(<<"T", "e", "c", "h", "n", "o", "l", "o", "g", "y">>, transactions[1].company_name)
      /\ committee_assignments =
            << CommitteeAssignment(<<"C", "o", "m", "m", "e", "r", "c", "e", ",", " ", "S", "c", "i", "e", "n", "c", "e", ",", " ", "a", "n", "d", " ", "T", "r", "a", "n", "s", "p", "o", "r", "t", "a", "t", "i", "o", "n">>) >> )
    => metrics[1].committee_correlation_score = 700

\* C7: with the bar of the transaction date (close c > 0) and a later bar
\* within 30 days, the score is 1.0 when the favorable change is >= 0.20,
\* 0.7 when >= 0.10, 0.4 when >= 0.05 and 0 otherwise, the change being
\* (max later close - c) / c for buy and purchase, (c - min later close) / c
\* for every other type.
C7_PriceMovementMapping ==
    LET tx == transactions[1]
        bars == stock_prices[AAPL]
        day == _get_price_on_date(bars, tx.transaction_date)
        Later(b) == b.price_date > tx.transaction_date
                    /\ b.price_date <= tx.transaction_date + 30
        later == SelectSeq(bars, Later)
        closes == [k \in 1..Len(later) |-> later[k].close_price]
        c == day[1].close_price
        change == IF lower(tx.transaction_type) \in {<<"b", "u", "y">>, <<"p", "u", "r", "c", "h", "a", "s", "e">>}
                  THEN MaxOf(closes) - c ELSE c - MinOf(closes)
    IN  (pc \in {"price", "volume"} /\ day # <<>> /\ later # <<>> /\ c > 0)
        => metrics[1].price_movement_score =
              IF 100 * change >= 20 * c THEN 1000
              ELSE IF 100 * change >= 10 * c THEN 700
              ELSE IF 100 * change >= 5 * c THEN 400
              ELSE 0

\* the bar of the transaction date exists and closes at zero
ZeroCloseOnDay(tx) ==
    LET day == _get_price_on_date(PricesOf(stock_prices, tx.ticker),
                                  tx.transaction_date)
    IN  day # <<>> /\ day[1].close_price = 0

\* C8: a zero close on the transaction date gives a price-movement score
\* of 0 and the call completes: no division fault is raised by the
\* transaction or leaves analyze_member_activity.
C8_ZeroCloseScoresZero ==
    /\ exc \notin {"DivisionByZero", "InvalidOperation"}
    /\ pc = "raised" => ~ZeroCloseOnDay(transactions[i])
    /\ (Running /\ i > 1 /\ ZeroCloseOnDay(transactions[i - 1]))
       => (metrics # <<>> /\ metrics[1].price_movement_score = 0)

\* the transactions without prices that the loop has gone past
SkippedSoFar == { k \in 1..Len(Processed) : ~HasPrices(Processed[k]) }

\* C9: a transaction whose ticker has no entry in the price mapping, or an
\* empty one, gets no alert whatever its other sub-scores, raises nothing,
\* and the transactions after it are still scored; with no actions, no
\* committees and no prices the call returns no alert.
C9_NoPricesNoAlert ==
    /\ Running =>
          \A k \in SkippedSoFar :
             \A a \in 1..Len(alerts) :
                alerts[a].transaction_id # Processed[k].transaction_id
    /\ pc = "raised" => HasPrices(transactions[i])
    /\ pc = "returned" =>
          /\ i = Len(transactions) + 1
          /\ \A k \in 1..Len(transactions) :
                (HasPrices(transactions[k])
                 /\ AnalysisOf(transactions[k]).metrics.overall_suspicion_score >= 300)
                => \E a \in 1..Len(alerts) :
                      alerts[a].transaction_id = transactions[k].transaction_id
          /\ (legislative_actions = <<>> /\ committee_assignments = <<>>
              /\ DOMAIN stock_prices = {}) => alerts = <<>>

\* a first transaction without prices whose timing score alone would reach
\* the threshold, one with the key missing and one with an empty series,
\* followed by a transaction that is alerted
C9_Witness ==
    /\ pc = "returned"
    /\ Len(transactions) = 2
    /\ ~HasPrices(transactions[1])
    /\ _calculate_timing_score(detector, transactions[1], legislative_actions,
                               <<>>) = 1000
    /\ Len(alerts) = 1
    /\ alerts[1].transaction_id = transactions[2].transaction_id
    /\ transactions[2].transaction_id # transactions[1].transaction_id

\* the ticker of tx has bars, and none of them is dated on the transaction
NoBarOnDay(tx) ==
    LET bars == PricesOf(stock_prices, tx.ticker)
    IN  /\ bars # <<>>
        /\ \A k \in 1..Len(bars) : bars[k].price_date # tx.transaction_date

\* C10: a non-empty price series with no bar on the transaction date gives
\* price-movement and volume-anomaly scores of 0, and the transaction is
\* still scored on timing and committee correlation.
C10_NoDayBarZeroPriceAndVolume ==
    (Running /\ i > 1 /\ NoBarOnDay(transactions[i - 1]))
    => /\ metrics # <<>>
       /\ metrics[1].price_movement_score = 0
       /\ metrics[1].volume_anomaly_score = 0
       /\ metrics[1].timing_score =
             _calculate_timing_score(detector, transactions[i - 1],
                                     legislative_actions, <<>>)
       /\ metrics[1].committee_correlation_score =
             _calculate_committee_correlation(transactions[i - 1],
                                              committee_assignments)
       /\ metrics[1].overall_suspicion_score * 1000 =
             300 * metrics[1].timing_score
           + 250 * metrics[1].committee_correlation_score

\* a transaction with bars before and after its date but none on it,
\* alerted on its timing and committee scores
C10_Witness ==
    /\ pc = "returned"
    /\ Len(transactions) = 1
    /\ NoBarOnDay(transactions[1])
    /\ metrics # <<>>
    /\ metrics[1].timing_score > 0
    /\ metrics[1].committee_correlation_score > 0
    /\ Len(alerts) = 1

\* C11: with no legislative actions the timing sub-score of every
\* transaction is 0, with no committee assignments its committee
\* correlation sub-score is 0, and neither raises: a call that raises
\* with an empty collection raises in the division of the price score.
C11_EmptyCollectionsScoreZero ==
    /\ (Running /\ metrics # <<>> /\ legislative_actions = <<>>)
          => metrics[1].timing_score = 0
    /\ (Running /\ metrics # <<>> /\ committee_assignments = <<>>)
          => metrics[1].committee_correlation_score = 0
    /\ \A k \in 1..Len(transactions) :
          /\ legislative_actions = <<>> =>
                _calculate_timing_score(detector, transactions[k],
                                        legislative_actions, <<>>) = 0
          /\ committee_assignments = <<>> =>
                _calculate_committee_correlation(transactions[k],
                                                 committee_assignments) = 0
    /\ (pc = "raised"
        /\ (legislative_actions = <<>> \/ committee_assignments = <<>>))
          => /\ exc \in {"DivisionByZero", "InvalidOperation"}
             /\ ZeroCloseOnDay(transactions[i])

\* a call with neither actions nor committees that scored a transaction
\* and alerted it on its price and volume scores
C11_Witness ==
    /\ pc = "returned"
    /\ legislative_actions = <<>>
    /\ committee_assignments = <<>>
    /\ metrics # <<>>
    /\ metrics[1].timing_score = 0
    /\ metrics[1].committee_correlation_score = 0
    /\ Len(alerts) = 1

\* an alert without the two fields that carry the time of generation
WithoutIdAndTime(alert) ==
    [ f \in DOMAIN alert \ {"alert_id", "created_at"} |-> alert[f] ]

\* C12: calls of analyze_member_activity with identical inputs, at any
\* clock times, return the same number of alerts for the same
\* transactions with the same confidence_score, alert_type and
\* description: the returned lists differ in alert_id and created_at at
\* most, and a call repeated after one that returned does not raise.
C12_RepeatedCallSameAlerts ==
    /\ \A m, n \in 1..Len(results) :
          /\ Len(results[m]) = Len(results[n])
          /\ \A k \in 1..Len(results[m]) :
                WithoutIdAndTime(results[m][k]) = WithoutIdAndTime(results[n][k])
    /\ pc = "raised" => results = <<>>

\* two calls that returned an alert each, at different clock times
C12_Witness ==
    /\ Len(results) = 2
    /\ results[1] # <<>>
    /\ results[1][1].created_at # results[2][1].created_at
    /\ results[1][1].alert_id # results[2][1].alert_id
    /\ results[1][1].confidence_score = results[2][1].confidence_score

\* C13: two alerts created by separate scoring passes over the same
\* transaction have different alert_id values, whatever the time between
\* the passes.
C13_AlertIdUniqueAcrossPasses ==
    \A m, n \in 1..Len(results) :
       m # n =>
          \A a \in 1..Len(results[m]) :
             \A b \in 1..Len(results[n]) :
                results[m][a].transaction_id = results[n][b].transaction_id
                => results[m][a].alert_id # results[n][b].alert_id

\* what analyze_member_activity does with the one-element list <<tx>> and
\* the other arguments of the call: the exception that leaves it, or the
\* alerts it returns, without the fields that carry the time
AloneOutcome(tx) ==
    IF ~HasPrices(tx) THEN [exc |-> "none", alerts |-> <<>>]
    ELSE LET analysis == AnalysisOf(tx)
             created == _create_alert(tx, member, analysis.metrics, 0)
         IN  IF analysis.exc # "none"
             THEN [exc |-> analysis.exc, alerts |-> <<>>]
             ELSE IF ~ReachesThreshold(detector, analysis.metrics)
             THEN [exc |-> "none", alerts |-> <<>>]
             ELSE IF created.exc # "none"
             THEN [exc |-> created.exc, alerts |-> <<>>]
             ELSE [exc |-> "none",
                   alerts |-> << WithoutIdAndTime(created.alert[1]) >>]

RECURSIVE ConcatAlone(_)
ConcatAlone(txs) ==
    IF txs = <<>> THEN <<>>
    ELSE AloneOutcome(Head(txs)).alerts \o ConcatAlone(Tail(txs))

\* C14: what the call produces for a transaction inside a list is what it
\* produces for that transaction passed alone: the returned list is the
\* in-order concatenation of the results of the single elements, and a
\* transaction that is alerted when passed alone is not left without its
\* alert by the call of a list that holds it.
C14_ListIsConcatenationOfSingles ==
    /\ pc = "returned" =>
          [k \in 1..Len(alerts) |-> WithoutIdAndTime(alerts[k])]
              = ConcatAlone(transactions)
    /\ pc = "raised" =>
          \A k \in 1..Len(transactions) :
             AloneOutcome(transactions[k]).alerts = <<>>

\* what the alerts of concurrent calls are compared by
AlertKey(alert) ==
    << alert.confidence_score, alert.alert_type, alert.transaction_id >>

\* the call of a frame run on its own from transaction k on: the exception
\* that leaves it, or the keys of the alerts it returns after acc
RECURSIVE SequentialOutcome(_, _, _)
SequentialOutcome(frame, k, acc) ==
    IF k > Len(frame.transactions) THEN [exc |-> "none", keys |-> acc]
    ELSE LET tx == frame.transactions[k]
             prices == PricesOf(stock_prices, tx.ticker)
             analysis == _analyze_transaction(detector, tx, frame.member,
                             frame.legislative_actions,
                             frame.committee_assignments, prices)
             created == _create_alert(tx, frame.member, analysis.metrics, 0)
         IN  IF prices = <<>> THEN SequentialOutcome(frame, k + 1, acc)
             ELSE IF analysis.exc # "none"
             THEN [exc |-> analysis.exc, keys |-> <<>>]
             ELSE IF ~ReachesThreshold(detector, analysis.metrics)
             THEN SequentialOutcome(frame, k + 1, acc)
             ELSE IF created.exc # "none"
             THEN [exc |-> created.exc, keys |-> <<>>]
             ELSE SequentialOutcome(frame, k + 1,
                      Append(acc, AlertKey(created.alert[1])))

\* C15: calls that run concurrently on one detector and one price table
\* that nobody mutates end, under every interleaving, as each of them ends
\* when run on its own: the same alerts by confidence_score, alert_type
\* and transaction_id in the same order, or the same exception; and the
\* detector and the table are left as they were.
C15_ConcurrentCallsAsSequential ==
    /\ detector = DetectorInit
    /\ stock_prices \in SharedPriceTables
    /\ \A w \in 1..Len(frames) :
          LET alone == SequentialOutcome(frames[w], 1, <<>>)
          IN  /\ frames[w].pc = "returned" =>
                    /\ alone.exc = "none"
                    /\ [k \in 1..Len(frames[w].alerts) |->
                           AlertKey(frames[w].alerts[k])] = alone.keys
              /\ frames[w].pc = "raised" => alone.exc = frames[w].exc

\* two calls for different members that ran interleaved, both returned,
\* each with an alert
C15_Witness ==
    /\ Len(frames) = 2
    /\ frames[1].member # frames[2].member
    /\ frames[1].pc = "returned"
    /\ frames[2].pc = "returned"
    /\ frames[1].alerts # <<>>
    /\ frames[2].alerts # <<>>

\* C16: constructing an InsiderTradingAlert with a confidence_score below
\* 0 or above 1 is rejected with a validation error and no alert object
\* is created; a score inside [0, 1], the ends included, is accepted and
\* the alert carries it.
C16_ConfidenceScoreValidated ==
    /\ pc = "raised" =>
          /\ fields[1].confidence_score < 0 \/ fields[1].confidence_score > 1000
          /\ exc = "ValidationError"
          /\ alerts = <<>>
    /\ pc = "constructed" =>
          /\ 0 <= fields[1].confidence_score
          /\ fields[1].confidence_score <= 1000
          /\ exc = "none"
          /\ Len(alerts) = 1
          /\ alerts[1].confidence_score = fields[1].confidence_score

\* the construction of the test, confidence_score 1.5, was rejected
C16_Witness ==
    /\ pc = "raised"
    /\ fields[1].confidence_score = 1500
    /\ fields[1].alert_type = "test"
    /\ exc = "ValidationError"
    /\ alerts = <<>>

\* the uncapped sum of the contributions of the actions that count for tx
UncappedTimingSum(tx) ==
    LET acts == RelevantInWindow(tx)
    IN  SumSeq([k \in 1..Len(acts) |->
                  TimingContribution(DaysDifference(acts[k], tx))])

\* C17: the timing score is the sum of the contributions of the relevant
\* in-window actions capped at 1.0: it never exceeds 1.0, it is the
\* uncapped sum whenever that sum is at most 1.0, and adding an action
\* never lowers it.
C17_TimingSumCapped ==
    pc = "timing" =>
        LET tx == transactions[1]
            total == UncappedTimingSum(tx)
        IN  /\ metrics[1].timing_score <= 1000
            /\ total <= 1000 => metrics[1].timing_score = total
            /\ total > 1000 => metrics[1].timing_score = 1000
            /\ \A a \in TimingActionSet :
                  _calculate_timing_score(detector, tx,
                      Append(legislative_actions, a), <<>>)
                  >= metrics[1].timing_score

\* two relevant actions worth 0.8 each: the sum 1.6 is capped at 1.0
C17_Witness ==
    /\ pc = "timing"
    /\ Len(legislative_actions) = 2
    /\ UncappedTimingSum(transactions[1]) = 1600
    /\ metrics[1].timing_score = 1000

\* the sum of a sequence of contributions, 1.0 at most
SumSeqCapped(s) == IF SumSeq(s) > 1000 THEN 1000 ELSE SumSeq(s)

\* the lower-cased ticker, or a word of more than 3 characters of the
\* lower-cased company name, occurs in the lower-cased bill title plus
\* affected-industry tags
NamesTheStock(action, tx) ==
    LET text == lower(action.bill_title \o <<" ">> \o
                      join(<<" ">>, action.industries_affected))
        words == { w \in split(lower(tx.company_name)) : Len(w) > 3 }
    IN  Contains(lower(tx.ticker), text) \/ \E w \in words : Contains(w, text)

\* the action is dated within timing_window_days of the transaction, both
\* ends included
WithinWindow(action, tx) ==
    /\ DaysDifference(action, tx) >= -detector.timing_window_days
    /\ DaysDifference(action, tx) <= detector.timing_window_days

\* C18: an action contributes to the timing score only if it is dated
\* within 30 days before or after the transaction, both ends inclusive,
\* and names the stock; an action outside the window or not relevant
\* contributes nothing: the score is that of the actions left when those
\* are removed, 0 when none is left, and for a single relevant action it
\* is 0.5 on day +30 and 0 on days +31 and -31.
C18_OnlyRelevantInWindowActionsCount ==
    pc = "timing" =>
        LET tx == transactions[1]
            Counts(action) == WithinWindow(action, tx) /\ NamesTheStock(action, tx)
            kept == SelectSeq(legislative_actions, Counts)
            only == legislative_actions[1]
        IN  /\ metrics[1].timing_score =
                  SumSeqCapped([k \in 1..Len(kept) |->
                      TimingContribution(DaysDifference(kept[k], tx))])
            /\ kept = <<>> => metrics[1].timing_score = 0
            /\ metrics[1].timing_score > 0 =>
                  \E k \in 1..Len(legislative_actions) :
                     Counts(legislative_actions[k])
            /\ (Len(legislative_actions) = 1 /\ NamesTheStock(only, tx)) =>
                  /\ DaysDifference(only, tx) = 30 => metrics[1].timing_score = 500
                  /\ DaysDifference(only, tx) \in {-31, 31}
                        => metrics[1].timing_score = 0

\* an action whose title holds "inc", three characters of the company
\* name, which does not count, and one that names the ticker and no word
\* of the company name, which does
C18_Witness ==
    /\ pc = "timing"
    /\ Len(legislative_actions) = 2
    /\ ~NamesTheStock(legislative_actions[1], transactions[1])
    /\ Contains(<<"i", "n", "c">>, lower(legislative_actions[1].bill_title))
    /\ Contains(<<"i", "n", "c">>, lower(transactions[1].company_name))
    /\ Contains(lower(transactions[1].ticker),
                lower(legislative_actions[2].bill_title))
    /\ ~Contains(<<"a", "p", "p", "l", "e">>, lower(legislative_actions[2].bill_title))
    /\ metrics[1].timing_score = 800

\* the actions with every member_id replaced by m
AsActionsOf(m, actions) ==
    [k \in 1..Len(actions) |-> [actions[k] EXCEPT !.member_id = m]]

\* C19: the timing score of a transaction is the same whatever the
\* member_id of each action: an action of another member counts exactly
\* like one of the member of the transaction.
C19_TimingIgnoresActionMember ==
    pc = "timing" =>
        \A m \in {"S001", "S002", "S999"} :
           _calculate_timing_score(detector, transactions[1],
               AsActionsOf(m, legislative_actions), <<>>)
           = metrics[1].timing_score

\* one relevant action of another member, counted in full
C19_Witness ==
    /\ pc = "timing"
    /\ Len(legislative_actions) = 1
    /\ legislative_actions[1].member_id # transactions[1].member_id
    /\ legislative_actions[1].member_id # member.member_id
    /\ metrics[1].timing_score = 800

\* the domain labels one of whose keywords occurs in the lower-cased
\* company name
MatchedDomains(tx) ==
    { committee_industry_map[n].industry :
        n \in { m \in 1..Len(committee_industry_map) :
                  \E k \in 1..Len(committee_industry_map[m].keywords) :
                     Contains(committee_industry_map[m].keywords[k],
                              lower(tx.company_name)) } }

\* the pairs of a matched domain label and a committee whose lower-cased
\* name holds it
DomainCommitteePairs(tx) ==
    { <<d, k>> \in MatchedDomains(tx) \X (1..Len(committee_assignments)) :
        Contains(d, lower(committee_assignments[k].committee_name)) }

DayBar(tx, prices) == _get_price_on_date(prices, tx.transaction_date)

\* the closes of future_prices: bars dated after the transaction date and
\* at most 30 days after it (the bar of the transaction date is not one)
FutureCloses(tx, prices) ==
    LET IsFuture(price) ==
            /\ price.price_date > tx.transaction_date
            /\ price.price_date <= tx.transaction_date + 30
        future_prices == SelectSeq(prices, IsFuture)
    IN  [k \in 1..Len(future_prices) |-> future_prices[k].close_price]

\* the numerator of price_change: max_price - close for a buy or purchase,
\* close - min_price for every other type
FavorableDifference(tx, prices) ==
    IF lower(tx.transaction_type) \in {<<"b", "u", "y">>, <<"p", "u", "r", "c", "h", "a", "s", "e">>}
    THEN MaxOf(FutureCloses(tx, prices)) - DayBar(tx, prices)[1].close_price
    ELSE DayBar(tx, prices)[1].close_price - MinOf(FutureCloses(tx, prices))

\* the price-movement score got as far as price_change: a bar on the
\* transaction date and a bar in the window after it
PriceChangeComputed ==
    /\ pc \in {"price", "volume", "raised"}
    /\ DayBar(transactions[1], stock_prices[AAPL]) # <<>>
    /\ FutureCloses(transactions[1], stock_prices[AAPL]) # <<>>

\* C21 as stated: the favorable change is never negative, the maximum
\* later close of a buy being at least the close on the transaction date
\* and the minimum later close of any other type at most that close.
C21_FavorableChangeNeverNegative ==
    PriceChangeComputed =>
        FavorableDifference(transactions[1], stock_prices[AAPL]) >= 0

\* C21 amended: the window after the transaction does not hold the bar of
\* the transaction date, so the favorable change is negative when every
\* later close lies on the wrong side of the close on the transaction
\* date; a negative change over a positive close scores 0.
C21_NegativeChangeScoresZero ==
    /\ PriceChangeComputed /\ pc # "raised"
         /\ FavorableDifference(transactions[1], stock_prices[AAPL]) < 0
         => metrics[1].price_movement_score = 0
    /\ PriceChangeComputed =>
         LET tx == transactions[1]
             closes == FutureCloses(tx, stock_prices[AAPL])
             current == DayBar(tx, stock_prices[AAPL])[1].close_price
             buy == lower(tx.transaction_type) \in {<<"b", "u", "y">>, <<"p", "u", "r", "c", "h", "a", "s", "e">>}
         IN  FavorableDifference(tx, stock_prices[AAPL]) < 0
               <=> \A k \in 1..Len(closes) :
                      IF buy THEN closes[k] < current ELSE closes[k] > current

\* a buy at 100 whose one later close is 80: a change of -20%, scored 0
C21_Witness ==
    /\ pc = "price"
    /\ PriceChangeComputed
    /\ lower(transactions[1].transaction_type) = <<"b", "u", "y">>
    /\ DayBar(transactions[1], stock_prices[AAPL])[1].close_price = 100
    /\ FutureCloses(transactions[1], stock_prices[AAPL]) = << 80 >>
    /\ metrics[1].price_movement_score = 0

\* the transaction of the call that an alert was made for
TransactionOf(alert) ==
    CHOOSE tx \in { transactions[k] : k \in 1..Len(transactions) } :
        tx.transaction_id = alert.transaction_id

\* C22: every emitted alert is labelled "committee_correlation" when the
\* committee sub-score of its transaction is greater than 0.5 and
\* "timing_correlation" otherwise, whichever sub-scores carried it over
\* the threshold; there is no other label.
C22_AlertTypeFromCommitteeScore ==
    \A k \in 1..Len(alerts) :
        /\ alerts[k].alert_type \in {"committee_correlation", "timing_correlation"}
        /\ alerts[k].alert_type = "committee_correlation"
             <=> _calculate_committee_correlation(TransactionOf(alerts[k]),
                                                  committee_assignments) > 500

\* a call returned an alert carried by the price movement alone, timing and
\* committee sub-scores both 0, labelled "timing_correlation"
C22_Witness ==
    /\ pc = "returned"
    /\ \E k \in 1..Len(alerts) :
         /\ AnalysisOf(TransactionOf(alerts[k])).metrics.timing_score = 0
         /\ AnalysisOf(TransactionOf(alerts[k])).metrics.committee_correlation_score = 0
         /\ alerts[k].alert_type = "timing_correlation"

\* the volumes of the bars dated from 37 days to 8 days before the
\* transaction date, both included, in the order of the collection
WindowVolumes(tx, prices) ==
    LET InWindow(price) ==
            price.price_date \in (tx.transaction_date - 37)..(tx.transaction_date - 8)
        window == SelectSeq(prices, InWindow)
    IN  [k \in 1..Len(window) |-> window[k].volume]

\* the bands of the z-score
VolumeBand(baseline_volumes, day_volume) ==
    IF VolumeZScoreGe(3, baseline_volumes, day_volume) THEN 800
    ELSE IF VolumeZScoreGe(2, baseline_volumes, day_volume) THEN 500
    ELSE IF VolumeZScoreGe(1, baseline_volumes, day_volume) THEN 200
    ELSE 0

\* C23: the baseline of the volume-anomaly score is made of exactly the
\* bars dated T-37 to T-8 inclusive: the score is the band of the volume
\* of the bar on T against the volumes of those bars and no others, and it
\* is 0 when there is no such bar or no bar on T.
C23_BaselineWindow ==
    pc = "volume" =>
        LET tx == transactions[1]
            prices == stock_prices[AAPL]
        IN  metrics[1].volume_anomaly_score =
              IF WindowVolumes(tx, prices) = <<>> \/ DayBar(tx, prices) = <<>>
              THEN 0
              ELSE VolumeBand(WindowVolumes(tx, prices), DayBar(tx, prices)[1].volume)

\* the dates of the bars of a collection
DatesOf(prices) == { prices[k].price_date : k \in 1..Len(prices) }

\* a bar on the last date of the window, a heavy bar one day later and a
\* bar on T three deviations above the first: scored 0.8, the heavy bar
\* left out
C23_Witness ==
    /\ pc = "volume"
    /\ DatesOf(stock_prices[AAPL]) = { Day(-8), Day(-7), Day(0) }
    /\ WindowVolumes(transactions[1], stock_prices[AAPL]) = << 100 >>
    /\ DayBar(transactions[1], stock_prices[AAPL])[1].volume = 160
    /\ metrics[1].volume_anomaly_score = 800

\* all the volumes of a baseline are the same
ConstantBaseline(volumes) == \A k \in 1..Len(volumes) : volumes[k] = volumes[1]

\* C24: the volume-anomaly score is 0.8, 0.5, 0.2 or 0 as the z-score
\* (volume of the day - baseline mean) / max(s, 1) reaches 3, 2, 1 or none
\* of them, s being the sample standard deviation of the baseline or a
\* fifth of the mean for a single bar; no exception is raised; a constant
\* baseline of several bars divides by 1, and a volume of the day at or
\* below the mean scores 0.
C24_VolumeBands ==
    /\ exc = "none"
    /\ pc = "volume" /\ WindowVolumes(transactions[1], stock_prices[AAPL]) # <<>>
                     /\ DayBar(transactions[1], stock_prices[AAPL]) # <<>> =>
        LET volumes == WindowVolumes(transactions[1], stock_prices[AAPL])
            day_volume == DayBar(transactions[1], stock_prices[AAPL])[1].volume
            n == Len(volumes)
            S == SumSeq(volumes)
            score == metrics[1].volume_anomaly_score
            Excess(k) == IF n = 1 /\ S >= 5 THEN 5 * (day_volume - S) >= k * S
                         ELSE day_volume - volumes[1] >= k
        IN  /\ score = VolumeBand(volumes, day_volume)
            /\ n * day_volume <= S => score = 0
            /\ n = 1 \/ ConstantBaseline(volumes) =>
                 score = IF Excess(3) THEN 800 ELSE IF Excess(2) THEN 500
                         ELSE IF Excess(1) THEN 200 ELSE 0

\* a constant baseline of two bars of volume 100 and a volume of 103 on the
\* day: z is 3 with the divisor 1, scored 0.8
C24_Witness ==
    /\ pc = "volume"
    /\ WindowVolumes(transactions[1], stock_prices[AAPL]) = << 100, 100 >>
    /\ DayBar(transactions[1], stock_prices[AAPL]) # <<>>
    /\ DayBar(transactions[1], stock_prices[AAPL])[1].volume = 103
    /\ metrics[1].volume_anomaly_score = 800

\* the orderings of a collection of bars
Orderings(prices) ==
    LET n == Len(prices)
        Bijections == { f \in [1..n -> 1..n] :
                          \A a, b \in 1..n : f[a] = f[b] => a = b }
    IN  { [k \in 1..n |-> prices[f[k]]] : f \in Bijections }

\* no two bars of the collection carry the same date
OneBarPerDate(prices) ==
    \A a, b \in 1..Len(prices) :
        prices[a].price_date = prices[b].price_date => a = b

\* more than one bar of the collection carries the transaction date
SeveralDayBars(tx, prices) ==
    Cardinality({ k \in 1..Len(prices) :
                    prices[k].price_date = tx.transaction_date }) > 1

\* what the price-movement score and the volume-anomaly score made of the
\* collection, they make of every ordering of it: the same exception or
\* the same score
SameForEveryOrdering ==
    \A q \in Orderings(stock_prices[AAPL]) :
        /\ pc \in {"price", "volume", "raised"} =>
             LET result == _calculate_price_movement_score(transactions[1], q)
             IN  /\ result.exc = exc
                 /\ pc # "raised" => result.value = metrics[1].price_movement_score
        /\ pc = "volume" =>
             _calculate_volume_anomaly_score(transactions[1], q)
               = metrics[1].volume_anomaly_score

\* C25: with at most one bar per date in the price collection, the
\* price-movement score and the volume-anomaly score of a transaction are
\* the same for every ordering of the bars.
C25_OrderIndependentOneBarPerDate ==
    OneBarPerDate(stock_prices[AAPL]) => SameForEveryOrdering

\* three bars of three dates listed out of date order, the later closes 105
\* and 125 after a buy at 100: scored 1.0 in this and every other order
C25_Witness ==
    /\ pc = "volume"
    /\ Len(stock_prices[AAPL]) = 3
    /\ OneBarPerDate(stock_prices[AAPL])
    /\ stock_prices[AAPL][1].price_date = Day(30)
    /\ stock_prices[AAPL][2].price_date = Day(0)
    /\ stock_prices[AAPL][3].close_price = 105
    /\ lower(transactions[1].transaction_type) = <<"b", "u", "y">>
    /\ metrics[1].price_movement_score = 1000

\* C26 as stated: with more than one bar on the transaction date the bar
\* used for the close and the volume of the day, and so the two scores, do
\* not depend on the order in which the bars are listed.
C26_DayLookupOrderIndependent ==
    SeveralDayBars(transactions[1], stock_prices[AAPL]) => SameForEveryOrdering

\* the alert list of the running call holds what the transactions gone
\* past in this call produce from the arguments of this call, and nothing
\* else
NoCarryOver ==
    Running =>
        [k \in 1..Len(alerts) |-> WithoutIdAndTime(alerts[k])]
            = ConcatAlone(Processed)

\* C27: a call of analyze_member_activity leaves the configuration of the
\* detector and the five collections it was given as they were, and the
\* detector keeps nothing from call to call: the alerts of a call are
\* those of its own transactions and arguments, whatever the calls before
\* it computed.
C27_CallLeavesNoTrace ==
    /\ [](detector = DetectorInit /\ NoCarryOver)
    /\ [][ /\ detector' = detector
           /\ pc = "loop" => inputs' = inputs ]_vars

\* a call that returned an alert, followed on the same detector by a call
\* with other transactions and prices that returned none
C27_Witness ==
    /\ pc = "returned"
    /\ Len(results) = 2
    /\ results[1] # <<>>
    /\ results[2] = <<>>
    /\ alerts = <<>>

\* C28: the four sub-scores of a scored transaction lie within 0..1.0,
\* 0..0.7, 0..1.0 and 0..0.8, so its combined score lies within 0..0.905;
\* the confidence_score that _create_alert hands to the alert model is
\* never above 1 and the construction of an alert never fails validation.
C28_CombinedScoreBounded ==
    /\ metrics # <<>> =>
          /\ metrics[1].timing_score \in 0..1000
          /\ metrics[1].committee_correlation_score \in 0..700
          /\ metrics[1].price_movement_score \in 0..1000
          /\ metrics[1].volume_anomaly_score \in 0..800
          /\ metrics[1].overall_suspicion_score \in 0..905
    /\ \A k \in 1..Len(alerts) : alerts[k].confidence_score \in 0..905
    /\ exc # "ValidationError"

\* a transaction with every sub-score at its greatest, alerted with the
\* confidence 0.905
C28_Witness ==
    /\ pc = "returned"
    /\ metrics # <<>>
    /\ metrics[1].timing_score = 1000
    /\ metrics[1].committee_correlation_score = 700
    /\ metrics[1].price_movement_score = 1000
    /\ metrics[1].volume_anomaly_score = 800
    /\ Len(alerts) = 1
    /\ alerts[1].confidence_score = 905

\* the sub-scores of a record of metrics that are not zero
NonZeroScores(m) ==
    { f \in {"timing_score", "committee_correlation_score",
             "price_movement_score", "volume_anomaly_score"} : m[f] # 0 }

\* C29: at the threshold 0.3 a transaction with exactly one non-zero
\* sub-score is alerted only when that sub-score is a timing score of 1.0
\* or a price-movement score of 1.0: the committee correlation alone
\* (0.175), the volume anomaly alone (0.08 at most), a price-movement
\* score of 0.7 or 0.4 alone and a single relevant action alone (timing
\* 0.8 at most, combined 0.24 at most) give no alert.
C29_SingleSubScoreAlerts ==
    (pc = "returned" /\ metrics # <<>>
        /\ Cardinality(NonZeroScores(metrics[1])) = 1) =>
        LET m == metrics[1]
        IN  /\ alerts # <<>> =>
                 m.timing_score = 1000 \/ m.price_movement_score = 1000
            /\ m.committee_correlation_score # 0 =>
                 m.overall_suspicion_score = 175 /\ alerts = <<>>
            /\ m.volume_anomaly_score # 0 =>
                 m.overall_suspicion_score <= 80 /\ alerts = <<>>
            /\ m.price_movement_score \in {400, 700} => alerts = <<>>
            /\ (m.timing_score # 0 /\ Len(legislative_actions) = 1) =>
                 /\ m.timing_score <= 800
                 /\ m.overall_suspicion_score <= 240
                 /\ alerts = <<>>

\* two relevant actions that bring the timing score to 1.0, every other
\* sub-score 0: alerted with the confidence 0.3, on the threshold
C29_Witness ==
    /\ pc = "returned"
    /\ metrics # <<>>
    /\ NonZeroScores(metrics[1]) = {"timing_score"}
    /\ metrics[1].timing_score = 1000
    /\ Len(alerts) = 1
    /\ alerts[1].confidence_score = 300

\* the alerts that the attempts of the run returned, member after member
RECURSIVE Gathered(_)
Gathered(attempts) ==
    IF attempts = <<>> THEN <<>>
    ELSE Head(attempts).alerts \o Gathered(Tail(attempts))

\* what the detector makes of the transactions txs of an attempt, with the
\* actions and the prices that the attempt fetched
ScoredAlone(attempt, txs) ==
    analyze_member_activity(detector, attempt.member, txs,
                            attempt.legislative_actions, <<>>,
                            attempt.stock_prices, now)

\* the alerts of an attempt that are about the transaction tx
AlertsAbout(attempt, tx) ==
    { k \in 1..Len(attempt.alerts) :
        attempt.alerts[k].transaction_id = tx.transaction_id }

\* C30: in run_full_pipeline a failure while one member is processed, in a
\* collector or in the scoring, does not stop the run: the members
\* collected are attempted once each in their order, the alerts of the
\* members that did not fail are gathered, the run ends by returning its
\* results record, and in an attempt that went through, the transactions
\* of a ticker whose price fetch failed have no alert while those of the
\* other tickers are scored as they are on their own.
C30_PipelineSurvivesMemberFailure ==
    pipeline # <<>> =>
        /\ pc \in {"members", "returned"}
        /\ [j \in 1..Len(pipeline.attempts) |-> pipeline.attempts[j].member]
             = SubSeq(pipeline.members, 1, pipeline.k - 1)
        /\ pipeline.results.members_processed = Len(pipeline.attempts)
        /\ pipeline.all_alerts = Gathered(pipeline.attempts)
        /\ (pc = "returned" /\ pipeline.results.errors = 0) =>
              /\ Len(pipeline.attempts) = Len(pipeline.members)
              /\ pipeline.results.alerts_generated = Len(pipeline.all_alerts)
        /\ \A j \in 1..Len(pipeline.attempts) :
              LET attempt == pipeline.attempts[j]
              IN  /\ attempt.caught # "none" => attempt.alerts = <<>>
                  /\ attempt.caught = "none" =>
                       /\ attempt.alerts
                            = ScoredAlone(attempt, attempt.transactions).alerts
                       /\ \A n \in 1..Len(attempt.transactions) :
                            LET tx == attempt.transactions[n]
                            IN  IF tx.ticker \in DOMAIN attempt.stock_prices
                                THEN AlertsAbout(attempt, tx) # {}
                                       <=> ScoredAlone(attempt, <<tx>>).alerts # <<>>
                                ELSE AlertsAbout(attempt, tx) = {}

\* a run over two members that returned: the scoring of the first raised on
\* a zero close, the second had the price fetch of AAPL fail and its
\* transaction in GOOGL alerted, and this alert is in the gathered list
C30_Witness ==
    /\ pc = "returned"
    /\ pipeline # <<>>
    /\ Len(pipeline.attempts) = 2
    /\ pipeline.attempts[1].caught = "DivisionByZero"
    /\ pipeline.attempts[2].caught = "none"
    /\ Len(pipeline.attempts[2].transactions) = 2
    /\ DOMAIN pipeline.attempts[2].stock_prices = { GOOGL }
    /\ Len(pipeline.attempts[2].alerts) = 1
    /\ pipeline.all_alerts = pipeline.attempts[2].alerts
    /\ pipeline.results.alerts_generated = 1
====
